---- MODULE Spec2Model ----
(***************************************************************************)
(* Model of the routing core of llm-rag-chat-demo (src/backend):           *)
(* safety moderation (safety.py), intent classification                    *)
(* (intent_classifier.py), the routing decision and response envelope      *)
(* (routing.py), the single-turn handler process_ask (ask_handler.py) and  *)
(* the lru_cache'd model-client constructors (llm_cache.py).               *)
(*                                                                         *)
(* Text.  A Python str is a sequence of tokens.  A token is a maximal run  *)
(* of word characters (a word: "hello", "AAPL"), one whitespace character  *)
(* (" ", "\t" or "\n"), or one punctuation character ("?", "'", ":", ",",   *)
(* "-", "{", ...).  Word characters are letters, digits and "_".  Two word *)
(* tokens are never adjacent.  The three backquotes of a markdown fence    *)
(* are the one token "FENCE", which is no word.  A regular                 *)
(* expression of the source that is anchored with \b on word characters    *)
(* is translated to a match over whole tokens; one that is not (the field  *)
(* pattern of _extract_field, str.replace("json", ...), the optional group *)
(* before "password") looks inside the word token.                         *)
(*                                                                         *)
(* Optional values (T | None) are None == <<>> and Some(v) == <<v>>.       *)
(***************************************************************************)
EXTENDS Integers, Sequences, FiniteSets, TLC

None == <<>>
Some(v) == <<v>>
Val(o) == o[1]

(***************************************************************************)
(* str primitives                                                          *)
(***************************************************************************)
\* the characters Python's str.strip() and the regex class \s treat as whitespace
Whitespace == {" ", "\t", "\n"}

\* characters that are neither word characters nor whitespace
Punctuation == {"?", "!", "'", ":", ",", "-", ".", "{", "}", "[", "]", "\""}

\* the token that spells the three backquotes of a markdown fence; it is one
\* token of three characters that are not word characters, and it has no
\* letters
Fence == "FENCE"

\* a run of word characters (\w+): not whitespace, not punctuation, not the
\* fence
IsWord(t) == t \notin Whitespace /\ t \notin Punctuation /\ t # Fence

\* the lower-case letter of each upper-case letter
LowerCase ==
    [A |-> "a", B |-> "b", C |-> "c", D |-> "d", E |-> "e", F |-> "f", G |-> "g",
     H |-> "h", I |-> "i", J |-> "j", K |-> "k", L |-> "l", M |-> "m", N |-> "n",
     O |-> "o", P |-> "p", Q |-> "q", R |-> "r", S |-> "s", T |-> "t", U |-> "u",
     V |-> "v", W |-> "w", X |-> "x", Y |-> "y", Z |-> "z"]

\* str.lower() on one token, for re.IGNORECASE, character by character (a
\* token without upper-case letters is left as it is, and so is the whole
\* token that stands for the markdown fence)
Lower(t) ==
    LET RECURSIVE LowerFrom(_)
        LowerFrom(p) ==
            IF p > Len(t)
            THEN ""
            ELSE (IF SubSeq(t, p, p) \in DOMAIN LowerCase
                  THEN LowerCase[SubSeq(t, p, p)]
                  ELSE SubSeq(t, p, p)) \o LowerFrom(p + 1)
    IN  IF t = Fence \/ \A p \in 1..Len(t) : SubSeq(t, p, p) \notin DOMAIN LowerCase
        THEN t
        ELSE LowerFrom(1)

\* Strip with a fault: the text is used as received
Strip_missing(s) == s

\* str.strip(): drop leading and trailing whitespace
RECURSIVE LStrip(_)
LStrip(s) ==
    IF s # <<>> /\ Head(s) \in Whitespace THEN LStrip(Tail(s)) ELSE s

RECURSIVE RStrip(_)
RStrip(s) ==
    IF s # <<>> /\ s[Len(s)] \in Whitespace
    THEN RStrip(SubSeq(s, 1, Len(s) - 1))
    ELSE s

Strip(s) == RStrip(LStrip(s))

\* len(s.split()): the number of maximal runs of non-whitespace tokens
SplitCount(s) ==
    Cardinality({i \in 1..Len(s) :
        /\ s[i] \notin Whitespace
        /\ (i = 1 \/ s[i - 1] \in Whitespace)})

\* s.endswith("?")
EndsWithQuestionMark(s) == s # <<>> /\ s[Len(s)] = "?"

(***************************************************************************)
(* regex fragments over tokens (all with re.IGNORECASE)                    *)
(***************************************************************************)
\* \b(?:w1|w2|...)\b  found at token i
WordAt(s, i, words) == i \in 1..Len(s) /\ Lower(s[i]) \in words

\* \b(?:w1|w2|...)\b  found anywhere
HasWord(s, words) == \E i \in 1..Len(s) : WordAt(s, i, words)

\* the first token index >= i that is not whitespace (the end of a \s* run)
RECURSIVE SkipSpace(_, _)
SkipSpace(s, i) ==
    IF i <= Len(s) /\ s[i] \in Whitespace THEN SkipSpace(s, i + 1) ELSE i

\* \b(?:a1|..)\s+(?:b1|..)\b : a word of A at i, then one or more whitespace,
\* then a word of B; the index of the B word, or 0
AfterSpaces(s, i) ==
    IF i + 1 <= Len(s) /\ s[i + 1] \in Whitespace THEN SkipSpace(s, i + 1) ELSE 0

\* \b(?:a1|..) (?:b1|..)\b with one literal space between the two words
HasPair(s, A, B) ==
    \E i \in 1..Len(s) :
        /\ WordAt(s, i, A)
        /\ i + 2 <= Len(s)
        /\ s[i + 1] = " "
        /\ WordAt(s, i + 2, B)

\* \b(?:a1|..)\b.*\b(?:b1|..)\b : a word of A strictly before a word of B on
\* the same line ("." matches every character but the newline)
HasBefore(s, A, B) ==
    \E i, j \in 1..Len(s) :
        /\ i < j
        /\ WordAt(s, i, A)
        /\ WordAt(s, j, B)
        /\ \A k \in i..j : s[k] # "\n"

\* the least element of a set of positive indexes, or 0 when it is empty
MinOrZero(S) == IF S = {} THEN 0 ELSE CHOOSE i \in S : \A j \in S : i <= j

\* a fixed run of tokens found at index i (case-insensitively)
MatchAt(s, i, form) ==
    /\ i >= 1
    /\ i + Len(form) - 1 <= Len(s)
    /\ \A k \in 1..Len(form) : Lower(s[i + k - 1]) = form[k]

(***************************************************************************)
(* safety.py: enums and ModerationResult                                   *)
(***************************************************************************)
SafetySeverity == {"low", "medium", "high"}

SafetyVerdict == {"allow", "warn", "block"}

\* ModerationResult(verdict, severity, categories=(), rationale=None)
ModerationResult(v, sev, cats, rat) ==
    [verdict |-> v, severity |-> sev, categories |-> cats, rationale |-> rat]

\* is_blocked with a fault: a block counts only at high severity
is_blocked_high_only(m) == m.verdict = "block" /\ m.severity = "high"

\* ModerationResult.is_blocked
is_blocked(m) == m.verdict = "block"

(***************************************************************************)
(* safety.py: the pattern tables                                           *)
(***************************************************************************)
WeaponWords == {"bomb", "explosive", "weapon"}

\* step[-\s]?by[-\s]?step as token runs: each separator is absent or is one
\* "-" or whitespace character (a newline too: only the .* that follows the
\* form stays on one line)
StepSeparators == {"-"} \cup Whitespace

StepByStepForms ==
    {<<"stepbystep">>}
    \cup {<<"stepby", x, "step">> : x \in StepSeparators}
    \cup {<<"step", x, "bystep">> : x \in StepSeparators}
    \cup {<<"step", x, "by", y, "step">> : x \in StepSeparators, y \in StepSeparators}

\* _BLOCK_PATTERNS[i].search(user_text), i = 1..5 in table order
BlockPatternMatches(i, s) ==
    CASE i = 1 -> HasBefore(s, {"build", "make", "create"}, WeaponWords)
      [] i = 2 ->
            \/ HasBefore(s, {"instruction", "instructions"}, WeaponWords)
            \/ \E k \in 1..Len(s) : \E form \in StepByStepForms :
                    /\ MatchAt(s, k, form)
                    /\ \E j \in (k + Len(form))..Len(s) :
                            /\ WordAt(s, j, WeaponWords)
                            /\ \A m \in (k + Len(form))..j : s[m] # "\n"
      [] i = 3 -> HasWord(s, {"kill", "murder", "suicide"})
      [] i = 4 ->
            \/ HasWord(s, {"ssn"})
            \/ HasPair(s, {"credit"}, {"card"})
            \/ \E k \in 1..Len(s) :
                    MatchAt(s, k, <<"social", " ", "security", " ", "number">>)
      [] i = 5 ->
            \* (system|root|admin)?\s*password: the group and \s* may both be
            \* empty, and with \s* empty the group and "password" are one word
            HasWord(s, {"password", "systempassword", "rootpassword", "adminpassword"})

\* the (pattern source, categories) rows of _BLOCK_PATTERNS
BLOCK_PATTERNS ==
    << [pattern |-> "\\b(?:build|make|create)\\b.*\\b(?:bomb|explosive|weapon)\\b",
        categories |-> << <<"weapons">> >>],
       [pattern |-> "\\b(?:instructions?|step[-\\s]?by[-\\s]?step)\\b.*\\b(?:bomb|explosive|weapon)\\b",
        categories |-> << <<"weapons">> >>],
       [pattern |-> "\\b(?:kill|murder|suicide)\\b",
        categories |-> << <<"violence">> >>],
       [pattern |-> "\\b(?:credit card|ssn|social security number)\\b",
        categories |-> << <<"privacy">> >>],
       [pattern |-> "\\b(system|root|admin)?\\s*password\\b",
        categories |-> << <<"privacy">> >>] >>

\* _WARN_PATTERNS[i].search(user_text), i = 1..2 in table order
WarnPatternMatches(i, s) ==
    CASE i = 1 -> HasWord(s, {"hack", "exploit"})
      [] i = 2 -> HasWord(s, {"nsfw", "explicit"})

WARN_PATTERNS ==
    << [pattern |-> "\\b(?:hack|exploit)\\b", categories |-> << <<"questionable">> >>],
       [pattern |-> "\\b(?:nsfw|explicit)\\b", categories |-> << <<"adult">> >>] >>

\* the first row of _BLOCK_PATTERNS that matches (the for loop returns at the
\* first hit), or 0
FirstBlock(s) == MinOrZero({i \in 1..Len(BLOCK_PATTERNS) : BlockPatternMatches(i, s)})

\* the first row of _WARN_PATTERNS that matches, or 0
FirstWarn(s) == MinOrZero({i \in 1..Len(WARN_PATTERNS) : WarnPatternMatches(i, s)})

\* run_pattern_filters with a fault: the warn table is checked first
run_pattern_filters_warn_first(s) ==
    IF FirstWarn(s) # 0
    THEN Some(ModerationResult("warn", "medium",
                WARN_PATTERNS[FirstWarn(s)].categories,
                Some(<<"Matched warn pattern: ", WARN_PATTERNS[FirstWarn(s)].pattern>>)))
    ELSE IF FirstBlock(s) # 0
    THEN Some(ModerationResult("block", "high",
                BLOCK_PATTERNS[FirstBlock(s)].categories,
                Some(<<"Matched block pattern: ", BLOCK_PATTERNS[FirstBlock(s)].pattern>>)))
    ELSE None

\* _run_pattern_filters(user_text) -> ModerationResult | None
run_pattern_filters(s) ==
    IF FirstBlock(s) # 0
    THEN Some(ModerationResult("block", "high",
                BLOCK_PATTERNS[FirstBlock(s)].categories,
                Some(<<"Matched block pattern: ", BLOCK_PATTERNS[FirstBlock(s)].pattern>>)))
    ELSE IF FirstWarn(s) # 0
    THEN Some(ModerationResult("warn", "medium",
                WARN_PATTERNS[FirstWarn(s)].categories,
                Some(<<"Matched warn pattern: ", WARN_PATTERNS[FirstWarn(s)].pattern>>)))
    ELSE None

\* run_safety_checks, lines 48-54: the empty-input result
EmptyInputResult ==
    ModerationResult("block", "high", <<>>, Some(<<"Empty user input.">>))

\* run_safety_checks, lines 64-68: the default result
DefaultAllowResult ==
    ModerationResult("allow", "low", <<>>, Some(<<"No safety issues detected.">>))

(***************************************************************************)
(* intent_classifier.py: IntentLabel, IntentResult and the heuristics      *)
(***************************************************************************)
IntentLabel ==
    {"qa", "small_talk", "finance_quote", "search", "memory_write", "escalate", "bad"}

\* IntentResult(intent, rationale=None, raw_response=None)
IntentResult(i, rat, raw) == [intent |-> i, rationale |-> rat, raw_response |-> raw]

\* IntentResult.is_retrieval_required
is_retrieval_required(r) == r.intent \in {"qa", "search"}

\* A1 \s+ A2 \s+ ... : a word of sets[1] at i, then whitespace, then a word
\* of sets[2], and so on
RECURSIVE SpacedAt(_, _, _)
SpacedAt(s, i, sets) ==
    /\ WordAt(s, i, Head(sets))
    /\ \/ Len(sets) = 1
       \/ /\ AfterSpaces(s, i) # 0
          /\ SpacedAt(s, AfterSpaces(s, i), Tail(sets))

\* the index of the last word of the run matched by SpacedAt(s, i, sets)
RECURSIVE SpacedEnd(_, _, _)
SpacedEnd(s, i, sets) ==
    IF Len(sets) = 1 THEN i ELSE SpacedEnd(s, AfterSpaces(s, i), Tail(sets))

\* [A-Za-z]{1,5} between two \b: a whole word of at most five characters,
\* all of them letters (a word may also hold digits and underscores)
IsSymbolWord(t) ==
    /\ IsWord(t)
    /\ Len(t) <= 5
    /\ \A p \in 1..Len(t) :
          \/ SubSeq(t, p, p) \in DOMAIN LowerCase
          \/ SubSeq(t, p, p) \in {LowerCase[c] : c \in DOMAIN LowerCase}

SymbolWordAt(s, i) == i \in 1..Len(s) /\ IsSymbolWord(s[i])

\* any(p.search(user_text) for p in _BAD_PATTERNS); in the first pattern
\* the optional group and "password" are one word when \s* is empty
MatchesBad(s) ==
    \/ HasWord(s, {"password", "systempassword", "rootpassword", "adminpassword"})
    \/ \E i \in 1..Len(s) :
          SpacedAt(s, i, <<{"share"}, {"your", "the"}, {"credentials", "password", "secret"}>>)

\* any(p.search(user_text) for p in _SMALL_TALK_PATTERNS)
MatchesSmallTalk(s) ==
    \/ HasWord(s, {"hi", "hello", "hey", "howdy"})
    \/ \E i \in 1..Len(s) :
          \/ MatchAt(s, i, <<"how", " ", "are", " ", "you">>)
          \/ MatchAt(s, i, <<"what", "'", "s", " ", "up">>)
          \/ MatchAt(s, i, <<"whats", " ", "up">>)
    \/ HasWord(s, {"thanks", "appreciate"})
    \/ HasPair(s, {"thank"}, {"you"})

\* any(p.search(user_text) for p in _MEMORY_WRITE_PATTERNS)
MatchesMemoryWrite(s) ==
    \/ HasPair(s, {"remember"}, {"that"})
    \/ HasPair(s, {"save"}, {"this", "that", "my"})

\* any(p.search(user_text) for p in _SEARCH_PATTERNS)
MatchesSearch(s) ==
    \/ HasWord(s, {"google"})
    \/ HasPair(s, {"search"}, {"for"})
    \/ HasPair(s, {"look"}, {"up"})

\* any(p.search(user_text) for p in _FINANCE_KEYWORD_PATTERNS)
MatchesFinanceKeyword(s) ==
    \/ \E i \in 1..Len(s) :
          SpacedAt(s, i, <<{"stock", "stocks", "share", "shares"}, {"price", "quote"}>>)
    \/ \E i \in 1..Len(s) :
          /\ SpacedAt(s, i, <<{"price", "quote"}, {"for", "of"}>>)
          /\ LET j == AfterSpaces(s, SpacedEnd(s, i, <<{"price", "quote"}, {"for", "of"}>>))
             IN  j # 0 /\ SymbolWordAt(s, j)
    \/ HasWord(s, {"ticker"})

(***************************************************************************)
(* finance_quotes.py: extract_symbol                                       *)
(***************************************************************************)
\* str.upper() on one token, character by character
RECURSIVE Upper(_)
Upper(t) ==
    LET c == SubSeq(t, 1, 1)
        up == {u \in DOMAIN LowerCase : LowerCase[u] = c}
    IN  IF t = ""
        THEN t
        ELSE (IF up # {} THEN CHOOSE u \in up : TRUE ELSE c) \o Upper(Tail(t))

\* where _SYMBOL_PATTERNS[k] matches with its first token at i: the index of
\* the captured word, or 0
SymbolMatchAt(k, s, i) ==
    CASE k = 1 ->
            IF SpacedAt(s, i, <<{"price", "quote"}, {"for", "of"}>>)
            THEN LET j == AfterSpaces(s, SpacedEnd(s, i, <<{"price", "quote"}, {"for", "of"}>>))
                 IN  IF j # 0 /\ SymbolWordAt(s, j) THEN j ELSE 0
            ELSE 0
      [] k = 2 ->
            IF /\ SymbolWordAt(s, i)
               /\ AfterSpaces(s, i) # 0
               /\ SpacedAt(s, AfterSpaces(s, i),
                           <<{"stock", "stocks", "share", "shares"}, {"price", "quote"}>>)
            THEN i
            ELSE 0
      [] k = 3 ->
            IF WordAt(s, i, {"ticker"}) /\ AfterSpaces(s, i) # 0
                  /\ SymbolWordAt(s, AfterSpaces(s, i))
            THEN AfterSpaces(s, i)
            ELSE 0

\* pattern.search: the leftmost match of _SYMBOL_PATTERNS[k], as the index of
\* the captured word, or 0
SymbolSearch(k, s) ==
    LET i == MinOrZero({j \in 1..Len(s) : SymbolMatchAt(k, s, j) # 0})
    IN  IF i = 0 THEN 0 ELSE SymbolMatchAt(k, s, i)

\* extract_symbol(user_text) -> str | None
extract_symbol(s) ==
    LET k == MinOrZero({n \in 1..3 : SymbolSearch(n, s) # 0})
    IN  IF k = 0 THEN None ELSE Some(Upper(s[SymbolSearch(k, s)]))

(***************************************************************************)
(* intent_classifier.py: _run_heuristics and the fixed results             *)
(***************************************************************************)
\* run_heuristics with a fault: the memory-write rule is tried before the
\* small-talk rule
run_heuristics_memory_first(s) ==
    IF MatchesBad(s)
    THEN Some(IntentResult("bad", Some(<<"Credential harvesting attempt.">>), None))
    ELSE IF MatchesMemoryWrite(s)
    THEN Some(IntentResult("memory_write",
                Some(<<"User requested to remember information.">>), None))
    ELSE IF MatchesSmallTalk(s)
    THEN Some(IntentResult("small_talk", Some(<<"Greeting detected.">>), None))
    ELSE IF MatchesSearch(s)
    THEN Some(IntentResult("search", Some(<<"Explicit search request.">>), None))
    ELSE IF extract_symbol(s) # None /\ MatchesFinanceKeyword(s)
    THEN Some(IntentResult("finance_quote",
                Some(<<"Finance quote request detected for ", Val(extract_symbol(s)), ".">>),
                None))
    ELSE IF SplitCount(s) <= 3 /\ EndsWithQuestionMark(s)
    THEN Some(IntentResult("small_talk", Some(<<"Short question likely chit-chat.">>), None))
    ELSE None

\* run_heuristics with a fault: the memory-write rule is missing
run_heuristics_no_memory(s) ==
    IF MatchesBad(s)
    THEN Some(IntentResult("bad", Some(<<"Credential harvesting attempt.">>), None))
    ELSE IF MatchesSmallTalk(s)
    THEN Some(IntentResult("small_talk", Some(<<"Greeting detected.">>), None))
    ELSE IF MatchesSearch(s)
    THEN Some(IntentResult("search", Some(<<"Explicit search request.">>), None))
    ELSE IF extract_symbol(s) # None /\ MatchesFinanceKeyword(s)
    THEN Some(IntentResult("finance_quote",
                Some(<<"Finance quote request detected for ", Val(extract_symbol(s)), ".">>),
                None))
    ELSE IF SplitCount(s) <= 3 /\ EndsWithQuestionMark(s)
    THEN Some(IntentResult("small_talk", Some(<<"Short question likely chit-chat.">>), None))
    ELSE None

\* _run_heuristics(user_text) -> IntentResult | None
run_heuristics(s) ==
    IF MatchesBad(s)
    THEN Some(IntentResult("bad", Some(<<"Credential harvesting attempt.">>), None))
    ELSE IF MatchesSmallTalk(s)
    THEN Some(IntentResult("small_talk", Some(<<"Greeting detected.">>), None))
    ELSE IF MatchesMemoryWrite(s)
    THEN Some(IntentResult("memory_write",
                Some(<<"User requested to remember information.">>), None))
    ELSE IF MatchesSearch(s)
    THEN Some(IntentResult("search", Some(<<"Explicit search request.">>), None))
    ELSE IF extract_symbol(s) # None /\ MatchesFinanceKeyword(s)
    THEN Some(IntentResult("finance_quote",
                Some(<<"Finance quote request detected for ", Val(extract_symbol(s)), ".">>),
                None))
    ELSE IF SplitCount(s) <= 3 /\ EndsWithQuestionMark(s)
    THEN Some(IntentResult("small_talk", Some(<<"Short question likely chit-chat.">>), None))
    ELSE None

\* classify_intent, line 59: the result for empty input
EmptyIntentResult == IntentResult("bad", Some(<<"Empty input.">>), None)

\* classify_intent, lines 71-74: the final fallback
FallbackIntentResult ==
    IntentResult("qa", Some(<<"Fallback default after classifier failure.">>), None)

(***************************************************************************)
(* safety.py: parsing the moderation model's output                        *)
(***************************************************************************)
\* the index of the last token of the line that holds token i
RECURSIVE LineEnd(_, _)
LineEnd(s, i) ==
    IF i + 1 <= Len(s) /\ s[i + 1] # "\n" THEN LineEnd(s, i + 1) ELSE i

\* field_name\s*:\s*(.+) matched with field_name ending token i: the
\* captured group as Some(text), or None when the pattern does not match
\* there.  Nothing anchors the start of field_name, so it may be the tail of
\* a longer word.  \s* runs over newlines too; .+ needs one character that
\* is not a newline and runs to the end of its line.
FieldMatchAt(s, i, field_name) ==
    LET colon == SkipSpace(s, i + 1)
        first == SkipSpace(s, colon + 1)
        spaces == {k \in (colon + 1)..(first - 1) : s[k] # "\n"}
        word == Lower(s[i])
        tail == SubSeq(word, Len(word) - Len(field_name) + 1, Len(word))
    IN  IF ~(/\ Len(word) >= Len(field_name)
             /\ tail = field_name
             /\ colon <= Len(s)
             /\ s[colon] = ":")
        THEN None
        ELSE IF first <= Len(s)
        THEN Some(SubSeq(s, first, LineEnd(s, first)))
        ELSE IF spaces # {}
        THEN LET k == CHOOSE m \in spaces : \A n \in spaces : m >= n
             IN  Some(SubSeq(s, k, LineEnd(s, k)))
        ELSE None

\* _extract_field(text, field_name, default): Optional text
extract_field(s, field_name, default) ==
    LET i == MinOrZero({j \in 1..Len(s) : FieldMatchAt(s, j, field_name) # None})
    IN  IF i = 0 THEN default ELSE Some(Strip(Val(FieldMatchAt(s, i, field_name))))

\* str.split(","): the pieces between the commas of s
RECURSIVE SplitComma(_)
SplitComma(s) ==
    LET c == MinOrZero({i \in 1..Len(s) : s[i] = ","})
    IN  IF c = 0
        THEN <<s>>
        ELSE <<SubSeq(s, 1, c - 1)>> \o SplitComma(SubSeq(s, c + 1, Len(s)))

\* tuple(cat.strip() for cat in pieces if cat.strip())
RECURSIVE StripNonEmpty(_)
StripNonEmpty(pieces) ==
    IF pieces = <<>>
    THEN <<>>
    ELSE (IF Strip(Head(pieces)) = <<>> THEN <<>> ELSE <<Strip(Head(pieces))>>)
            \o StripNonEmpty(Tail(pieces))

\* SafetyVerdict(verdict or "allow"), ValueError -> ALLOW
ToVerdict(o) ==
    IF o # None /\ Len(Val(o)) = 1 /\ Val(o)[1] \in SafetyVerdict THEN Val(o)[1] ELSE "allow"

\* SafetySeverity(severity or "low"), ValueError -> LOW
ToSeverity(o) ==
    IF o # None /\ Len(Val(o)) = 1 /\ Val(o)[1] \in SafetySeverity THEN Val(o)[1] ELSE "low"

\* _run_llm_moderation, lines 137 and 142-161: the result for the text the
\* moderation model returned
parse_moderation_output(raw) ==
    LET output == Strip(raw)
        verdict == extract_field(output, "verdict", Some(<<>>))
        severity == extract_field(output, "severity", Some(<<"low">>))
        categories == StripNonEmpty(SplitComma(Val(extract_field(output, "categories", Some(<<>>)))))
        rationale == extract_field(output, "rationale", None)
    IN  ModerationResult(ToVerdict(verdict), ToSeverity(severity), categories, rationale)

(***************************************************************************)
(* json.loads on the JSON the model's vocabulary can spell: strings        *)
(* without escapes, null, true, false, the listed numbers, arrays and      *)
(* objects.  A decoded value is a record tagged with its Python type.      *)
(***************************************************************************)
Quote == "\""

JsonNumbers == {"0", "1", "42"}

JsonLiterals == {"null", "true", "false"}

ParseFail == [ok |-> FALSE, next |-> 0, val |-> [type |-> "error"]]

ParseOk(n, v) == [ok |-> TRUE, next |-> n, val |-> v]

\* dict[key] = value: a later member replaces an earlier one with the same key
DictPut(items, key, v) ==
    SelectSeq(items, LAMBDA it : it.key # key) \o <<[key |-> key, val |-> v]>>

RECURSIVE ParseValue(_, _)
RECURSIVE ParseElements(_, _, _)
RECURSIVE ParseMembers(_, _, _)

\* one JSON value whose first token is s[i]
ParseValue(s, i) ==
    IF i > Len(s)
    THEN ParseFail
    ELSE IF s[i] = Quote
    THEN LET j == MinOrZero({k \in (i + 1)..Len(s) : s[k] = Quote})
         IN  IF j = 0 \/ \E k \in (i + 1)..(j - 1) : s[k] \in {"\n", "\t"}
             THEN ParseFail
             ELSE ParseOk(j + 1, [type |-> "str", v |-> SubSeq(s, i + 1, j - 1)])
    ELSE IF s[i] \in JsonLiterals
    THEN ParseOk(i + 1, [type |-> IF s[i] = "null" THEN "NoneType" ELSE "bool"])
    ELSE IF s[i] \in JsonNumbers
    THEN ParseOk(i + 1, [type |-> "int", v |-> <<s[i]>>])
    ELSE IF s[i] = "["
    THEN LET j == SkipSpace(s, i + 1)
         IN  IF j <= Len(s) /\ s[j] = "]"
             THEN ParseOk(j + 1, [type |-> "list", items |-> <<>>])
             ELSE ParseElements(s, j, <<>>)
    ELSE IF s[i] = "{"
    THEN LET j == SkipSpace(s, i + 1)
         IN  IF j <= Len(s) /\ s[j] = "}"
             THEN ParseOk(j + 1, [type |-> "dict", items |-> <<>>])
             ELSE ParseMembers(s, j, <<>>)
    ELSE ParseFail

\* the elements of an array from s[i] on, up to the closing bracket
ParseElements(s, i, acc) ==
    LET r == ParseValue(s, i)
        j == SkipSpace(s, r.next)
    IN  IF ~r.ok \/ j > Len(s)
        THEN ParseFail
        ELSE IF s[j] = "]"
        THEN ParseOk(j + 1, [type |-> "list", items |-> Append(acc, r.val)])
        ELSE IF s[j] = ","
        THEN ParseElements(s, SkipSpace(s, j + 1), Append(acc, r.val))
        ELSE ParseFail

\* the "key": value members of an object from s[i] on, up to the closing brace
ParseMembers(s, i, acc) ==
    LET k == IF i <= Len(s) /\ s[i] = Quote THEN ParseValue(s, i) ELSE ParseFail
        colon == SkipSpace(s, k.next)
        r == ParseValue(s, SkipSpace(s, colon + 1))
        j == SkipSpace(s, r.next)
    IN  IF ~k.ok \/ colon > Len(s)
        THEN ParseFail
        ELSE IF s[colon] # ":" \/ ~r.ok \/ j > Len(s)
        THEN ParseFail
        ELSE IF s[j] = "}"
        THEN ParseOk(j + 1, [type |-> "dict", items |-> DictPut(acc, k.val.v, r.val)])
        ELSE IF s[j] = ","
        THEN ParseMembers(s, SkipSpace(s, j + 1), DictPut(acc, k.val.v, r.val))
        ELSE ParseFail

\* json.loads(text): Some(value), or None for json.JSONDecodeError
json_loads(s) ==
    LET r == ParseValue(s, SkipSpace(s, 1))
    IN  IF r.ok /\ SkipSpace(s, r.next) > Len(s) THEN Some(r.val) ELSE None

\* dict.get(key, default): Optional decoded value
DictGet(d, key, default) ==
    LET hits == {i \in 1..Len(d.items) : d.items[i].key = key}
    IN  IF hits = {} THEN default ELSE Some(d.items[CHOOSE i \in hits : TRUE].val)

(***************************************************************************)
(* intent_classifier.py: parsing the classification model's output         *)
(***************************************************************************)
\* str.replace("json", "", 1): cut the first occurrence of the characters
\* json (in this case only) out of the text; they lie inside one word token,
\* which keeps what stood around them or, when nothing did, disappears
RemoveFirstJson(s) ==
    LET Find(t) == MinOrZero({p \in 1..(Len(t) - 3) : SubSeq(t, p, p + 3) = "json"})
        i == MinOrZero({k \in 1..Len(s) : s[k] # Fence /\ Find(s[k]) # 0})
        rest == SubSeq(s[i], 1, Find(s[i]) - 1) \o SubSeq(s[i], Find(s[i]) + 4, Len(s[i]))
    IN  IF i = 0
        THEN s
        ELSE SubSeq(s, 1, i - 1) \o (IF rest = "" THEN <<>> ELSE <<rest>>)
                \o SubSeq(s, i + 1, Len(s))

\* _extract_json(response_text)
extract_json(s) ==
    LET fences == {i \in 1..Len(s) : s[i] = Fence}
        start == MinOrZero(fences)
        end == IF fences = {} THEN 0 ELSE CHOOSE i \in fences : \A j \in fences : i >= j
        candidate == Strip(RemoveFirstJson(SubSeq(s, start + 1, end - 1)))
    IN  IF fences # {} /\ end > start /\ candidate # <<>> THEN candidate ELSE s

\* the result of a call: the exception it raises ("" for none) and its value
Returned(v) == [raised |-> "", value |-> v]

Raised(exc) == [raised |-> exc, value |-> None]

\* IntentResult.rationale as decoded: a JSON string is the text, null is None
\* and any other value is carried as it is (the model names its type)
RationaleOf(o) ==
    IF o = None \/ Val(o).type = "NoneType"
    THEN None
    ELSE IF Val(o).type = "str" THEN Some(Val(o).v) ELSE Some(<<"<", Val(o).type, ">">>)

\* IntentLabel(intent_str) succeeds: a str that spells one of the labels
IsIntentLabel(o) ==
    /\ o # None
    /\ Val(o).type = "str"
    /\ Len(Val(o).v) = 1
    /\ Val(o).v[1] \in IntentLabel

\* _run_llm_classifier, lines 150 and 156-171: the outcome for the text the
\* classification model returned
parse_classifier_output(raw) ==
    LET raw_text == Strip(raw)
        parsed == json_loads(extract_json(raw_text))
        intent_str == DictGet(Val(parsed), <<"intent">>, None)
        rationale ==
            DictGet(Val(parsed), <<"rationale">>, DictGet(Val(parsed), <<"reason">>, None))
    IN  IF parsed = None
        THEN Returned(None)
        ELSE IF Val(parsed).type # "dict"
        THEN Raised("AttributeError")
        ELSE IF ~IsIntentLabel(intent_str)
        THEN Returned(None)
        ELSE Returned(Some(IntentResult(Val(intent_str).v[1], RationaleOf(rationale),
                                        Some(raw_text))))

(***************************************************************************)
(* routing.py: RoutingDecision and the response envelope                   *)
(***************************************************************************)
RoutingDecision(i, m, refuse, escalate, rat) ==
    [intent |-> i, moderation |-> m, should_refuse |-> refuse,
     should_escalate |-> escalate, rationale |-> rat]

\* analyze_message, lines 35-42: the terminal decision of a blocked request
BlockedDecision(m) == RoutingDecision("bad", m, TRUE, FALSE, m.rationale)

\* should_escalate_of with a fault: nothing is escalated
should_escalate_never(r) == FALSE

\* analyze_message, line 46
should_escalate_of(r) == r.intent = "escalate"

\* should_refuse_of with a fault: a warn verdict alone refuses
should_refuse_on_warn(m, r) == r.intent = "bad" \/ m.verdict = "warn"

\* analyze_message, lines 47-50
should_refuse_of(m, r) ==
    r.intent = "bad" \/ (m.verdict = "warn" /\ r.intent = "bad")

\* analyze_message, lines 46-58: the decision of a request that is not blocked
ClassifiedDecision(m, r) ==
    RoutingDecision(r.intent, m, should_refuse_of(m, r), should_escalate_of(r),
                    r.rationale)

\* render_refusal_response with a fault: one text for every refusal
render_refusal_response_one_text(d) ==
    <<"I'm sorry, but I can't assist with that request.">>

\* RoutingDecision.render_refusal_response
render_refusal_response(d) ==
    IF is_blocked(d.moderation)
    THEN <<"I'm sorry, but I can't assist with that request.">>
    ELSE <<"I'm sorry, but I can't comply with that request.">>

\* RoutingDecision.render_escalation_response
render_escalation_response(d) ==
    <<"This request may require a human assistant. I've forwarded the details.">>

\* build_response_payload with a fault: the routing rationale is put where
\* the moderation rationale belongs
build_response_payload_mixed(answer, d) ==
    [answer |-> answer,
     intent |-> d.intent,
     moderation |-> [verdict |-> d.moderation.verdict,
                     severity |-> d.moderation.severity,
                     categories |-> d.moderation.categories,
                     rationale |-> d.rationale],
     routing_rationale |-> d.rationale]

\* build_response_payload(answer, decision)
build_response_payload(answer, d) ==
    [answer |-> answer,
     intent |-> d.intent,
     moderation |-> [verdict |-> d.moderation.verdict,
                     severity |-> d.moderation.severity,
                     categories |-> d.moderation.categories,
                     rationale |-> d.moderation.rationale],
     routing_rationale |-> d.rationale]

\* ask_handler.py, line 83
MemoryAcknowledgement ==
    <<"I'll remember that for later once memory storage is enabled.">>

\* small_talk.py, line 16
SmallTalkFallback == <<"Hi there! How can I help you today?">>

(***************************************************************************)
(* llm_cache.py: get_ollama_llm under functools.lru_cache(maxsize=MAX_SIZE)*)
(***************************************************************************)
MAX_SIZE == 4

CONTEXT_LENGTH == 2048

\* the default of the temperature parameter (floats are spelled as strings)
DefaultTemperature == "0.0"

\* the model name of get_moderation_llm, line 19
GuardModel == "llama-guard3"

\* lru_cache's key is built from the arguments as passed: the positional
\* model name and the keyword arguments, if any
CacheKey(model_name, kwds) == [model_name |-> model_name, kwds |-> kwds]

PlainKey(model_name) == CacheKey(model_name, <<>>)

\* get_ollama_llm(model_name, temperature=0.6), small_talk.py line 13
SmallTalkKey(model_name) == CacheKey(model_name, << <<"temperature", "0.6">> >>)

\* OllamaLLM(model=model_name, temperature=temperature, num_ctx=num_ctx): a
\* new object, its identity the serial number id
NewClient(id, key) ==
    [id |-> id,
     model |-> key.model_name,
     temperature |-> IF key.kwds = <<>> THEN DefaultTemperature ELSE key.kwds[1][2],
     num_ctx |-> CONTEXT_LENGTH]

\* CacheIndex with a fault: entries are matched by model name alone
CacheIndex_model_only(c, key) ==
    MinOrZero({i \in 1..Len(c) : c[i].key.model_name = key.model_name})

\* the index of key's entry in the cache (oldest first), or 0
CacheIndex(c, key) == MinOrZero({i \in 1..Len(c) : c[i].key = key})

\* LruTouch with a fault: a hit leaves the order alone (first in, first out)
LruTouch_no_move(c, i) == c

\* a hit: the entry becomes the most recently used
LruTouch(c, i) == SubSeq(c, 1, i - 1) \o SubSeq(c, i + 1, Len(c)) \o <<c[i]>>

\* after the wrapped function returned: if the key was added meanwhile the
\* cache is left alone; a full cache drops its oldest entry; then insert
LruInsert(c, key, h) ==
    IF CacheIndex(c, key) # 0
    THEN c
    ELSE IF Len(c) >= MAX_SIZE
    THEN Tail(c) \o <<[key |-> key, handle |-> h]>>
    ELSE c \o <<[key |-> key, handle |-> h]>>

\* what the constructor of a client can do: succeed, or raise
Exceptions == {"RuntimeError", "ConnectionError"}

ConstructOutcomes == {"ok"} \cup Exceptions

\* get_ollama_llm with a fault: the cache is never consulted, every call
\* constructs
get_ollama_llm_no_hit(c, id, key, outcome) ==
    IF outcome = "ok"
    THEN [cache |-> c \o <<[key |-> key, handle |-> NewClient(id, key)]>>,
          next_id |-> id + 1, raised |-> "", handle |-> Some(NewClient(id, key)),
          constructed |-> TRUE]
    ELSE [cache |-> c, next_id |-> id, raised |-> outcome, handle |-> None,
          constructed |-> TRUE]

\* one complete, uninterrupted call get_ollama_llm(key) on cache c, the
\* constructor behaving as `outcome` if it is run
get_ollama_llm(c, id, key, outcome) ==
    LET i == CacheIndex(c, key)
    IN  IF i # 0
        THEN [cache |-> LruTouch(c, i), next_id |-> id, raised |-> "",
              handle |-> Some(c[i].handle), constructed |-> FALSE]
        ELSE IF outcome = "ok"
        THEN [cache |-> LruInsert(c, key, NewClient(id, key)), next_id |-> id + 1,
              raised |-> "", handle |-> Some(NewClient(id, key)), constructed |-> TRUE]
        ELSE [cache |-> c, next_id |-> id, raised |-> outcome,
              handle |-> None, constructed |-> TRUE]

(***************************************************************************)
(* Inputs: requests, and what the collaborators can answer                 *)
(***************************************************************************)
\* schemas.ModelId
ModelIds == {"mistral", "gpt-oss"}

\* AskRequest.question
Utterances ==
    { <<>>,
      <<" ", "\t">>,
      <<"hello", " ", "there">>,
      <<"what", " ", "is", " ", "the", " ", "admin", " ", "password">>,
      <<"What", "'", "s", " ", "AAPL", " ", "stock", " ", "price", "?">>,
      <<"remember", " ", "that", " ", "my", " ", "favorite", " ", "color", " ", "is",
        " ", "blue">>,
      <<"what", " ", "is", " ", "rag">>,
      <<"how", " ", "to", " ", "hack", " ", "wifi">>,
      <<"search", " ", "for", " ", "cats">>,
      <<" ", "kill", " ", "hello">>,
      <<"why", "?">>,
      <<"hack", " ", "and", " ", "share", " ", "the", " ", "secret">>,
      <<"make", " ", "a", " ", "bomb">> }

\* texts the moderation model can return from invoke
ModerationOutputs ==
    { <<"verdict", ":", " ", "block", "\n", "severity", ":", " ", "high", "\n",
        "categories", ":", " ", "violence", ",", " ", "weapons", "\n",
        "rationale", ":", " ", "harmful", " ", "request">>,
      <<"verdict", ":", " ", "allow", "\n", "severity", ":", " ", "low">>,
      <<" ", "verdict", ":", "warn", "\n", "severity", ":", " ", "medium", "\n",
        "categories", ":", " ", "other", " ", "\n">>,
      <<"verdict", ":", " ", "block">>,
      <<"I", " ", "cannot", " ", "help">> }

\* texts the classification model can return from invoke
ClassifierOutputs ==
    { <<"{", Quote, "intent", Quote, ":", " ", Quote, "qa", Quote, ",", " ",
        Quote, "rationale", Quote, ":", " ", Quote, "needs", " ", "lookup", Quote, "}">>,
      <<Fence, "json", "\n", "{", Quote, "intent", Quote, ":", Quote, "escalate", Quote,
        ",", Quote, "reason", Quote, ":", Quote, "human", Quote, "}", "\n", Fence>>,
      <<" ", "{", Quote, "intent", Quote, ":", Quote, "bad", Quote, "}", "\n">>,
      <<"sorry">>,
      <<"[", "]">>,
      <<"{", Quote, "intent", Quote, ":", Quote, "unknown", Quote, "}">>,
      <<"{", Quote, "rationale", Quote, ":", Quote, "none", Quote, "}">> }

\* texts the small-talk model can return from invoke
SmallTalkOutputs == { <<" ", "Hello", "!", "\n">> }

\* response.response of the retrieval-query engine
QueryAnswers == { <<"RAG", " ", "is", " ", "retrieval", ".">> }

\* the number of requests served one after the other
MaxRequests == 2

(***************************************************************************)
(* State                                                                   *)
(***************************************************************************)
VARIABLES
    pc,             \* where process_ask stands: "idle", a stage, "done" or "failed"
    question,       \* request.question
    model,          \* request.model.value
    moderation,     \* Optional ModerationResult of run_safety_checks
    llm,            \* Optional client the running stage holds
    decision,       \* Optional RoutingDecision of analyze_message
    engine,         \* Optional query engine of get_query_engine
    response,       \* Optional payload process_ask returned
    raised,         \* the exception that left process_ask, or ""
    calls,          \* the collaborator calls of this request, in order
    served,         \* requests received so far
    cache,          \* get_ollama_llm's lru_cache, least recently used first
    next_id,        \* identity of the next object constructed
    tpc,            \* per thread: where its get_ollama_llm call stands
    tkey,           \* per thread: the key it looks up
    tres,           \* per thread: Optional client its call returned
    tconc,          \* per thread: its call missed while another thread was
                    \* constructing a client for the same key (or the converse)
    engines,        \* every engine get_query_engine returned so far, with the
                    \* model name it was asked for, in order
    heuristic_text, \* the user_text a heuristic function is called with
    heuristic_intent,   \* Optional IntentResult of _run_heuristics(heuristic_text)
    heuristic_match,    \* Optional ModerationResult of _run_pattern_filters(heuristic_text)
    returned,       \* the heuristic functions that have returned for heuristic_text
    previous,       \* the question, moderation result and decision of the request
                    \* before the current one
    llm_output,     \* the text a model's invoke returned
    output_parts,   \* how llm_output was put together
    parsed,         \* what the caller of invoke made of llm_output
    chat_pc,        \* where process_chat stands
    messages,       \* request.messages of the ChatRequest
    received,       \* request.messages as the request arrived
    last_user_message, \* the content of the popped message
    chat_call,      \* the arguments of chat_engine.chat, once it is called
    chat_engines,   \* the lru_cache of _get_chat_engine, oldest first
    langchain_llms, \* the lru_cache of _get_langchain_llm, oldest first
    chat_result     \* what process_chat returned

vars == <<pc, question, model, moderation, llm, decision, engine, response, raised,
          calls, served, cache, next_id, tpc, tkey, tres, tconc, engines,
          heuristic_text, heuristic_intent, heuristic_match, returned, previous,
          llm_output, output_parts, parsed, chat_pc, messages, received,
          last_user_message, chat_call, chat_engines, langchain_llms, chat_result>>

request_vars == <<question, model>>

thread_vars == <<tpc, tkey, tres, tconc>>

heuristic_vars == <<heuristic_text, heuristic_intent, heuristic_match, returned>>

parser_vars == <<llm_output, output_parts, parsed>>

chat_vars == <<chat_pc, messages, received, last_user_message, chat_call, chat_engines,
               langchain_llms, chat_result>>

Threads == {1, 2}

Init ==
    /\ pc = "idle"
    /\ question = <<>>
    /\ model = "mistral"
    /\ moderation = None
    /\ llm = None
    /\ decision = None
    /\ engine = None
    /\ response = None
    /\ raised = ""
    /\ calls = <<>>
    /\ served = 0
    /\ cache = <<>>
    /\ next_id = 1
    /\ tpc = [t \in Threads |-> "idle"]
    /\ tkey = [t \in Threads |-> PlainKey("mistral")]
    /\ tres = [t \in Threads |-> None]
    /\ tconc = [t \in Threads |-> FALSE]
    /\ engines = <<>>
    /\ previous = [question |-> <<>>, moderation |-> None, decision |-> None]
    /\ chat_pc = "idle"
    /\ messages = <<>>
    /\ received = <<>>
    /\ last_user_message = None
    /\ chat_call = None
    /\ chat_engines = <<>>
    /\ langchain_llms = <<>>
    /\ chat_result = None
    /\ llm_output = <<>>
    /\ output_parts = [kind |-> "none"]
    /\ parsed = None
    /\ heuristic_text = <<>>
    /\ heuristic_intent = None
    /\ heuristic_match = None
    /\ returned = {}

\* one entry of the call log
Call(stage, op) == [stage |-> stage, op |-> op]

(***************************************************************************)
(* process_ask, step by step.  A step ends where the handler calls a       *)
(* collaborator (a client constructor, invoke, as_query_engine, query) or  *)
(* returns; the cache, the request counter and the threads' variables are  *)
(* left alone unless a step says otherwise.                                *)
(***************************************************************************)
\* process_ask(AskRequest(question=q, model=m)) is called
Receive(q, m) ==
    /\ pc = "idle"
    /\ served < MaxRequests
    /\ pc' = "moderate"
    /\ question' = q
    /\ model' = m
    /\ served' = served + 1
    /\ moderation' = None
    /\ llm' = None
    /\ decision' = None
    /\ engine' = None
    /\ response' = None
    /\ raised' = ""
    /\ calls' = <<>>
    /\ previous' = [question |-> question, moderation |-> moderation,
                     decision |-> decision]
    /\ UNCHANGED <<heuristic_vars, parser_vars, chat_vars, engines, cache, next_id, thread_vars>>

\* ModerateHeuristics with a fault: the pattern filters are skipped and
\* every non-empty input goes to the moderation model
ModerateHeuristics_skips_filters ==
    /\ pc = "moderate"
    /\ IF Strip(question) = <<>>
       THEN moderation' = Some(EmptyInputResult) /\ pc' = "route"
       ELSE moderation' = None /\ pc' = "mod_get_guard"
    /\ UNCHANGED <<heuristic_vars, parser_vars, chat_vars, engines, previous, request_vars, llm, decision, engine, response, raised, calls,
                   served, cache, next_id, thread_vars>>

\* ModerateHeuristics with a fault: the pattern filters are consulted for
\* the first request only
ModerateHeuristics_first_request_only ==
    /\ pc = "moderate"
    /\ LET user_text == Strip(question)
       IN  IF user_text = <<>>
           THEN moderation' = Some(EmptyInputResult) /\ pc' = "route"
           ELSE IF served = 1 /\ run_pattern_filters(user_text) # None
           THEN moderation' = run_pattern_filters(user_text) /\ pc' = "route"
           ELSE moderation' = None /\ pc' = "mod_get_guard"
    /\ UNCHANGED <<heuristic_vars, parser_vars, chat_vars, engines, previous, request_vars, llm, decision, engine, response, raised, calls,
                   served, cache, next_id, thread_vars>>

\* run_safety_checks, lines 48-58: the empty-input check and the pattern filters
ModerateHeuristics ==
    /\ pc = "moderate"
    /\ LET user_text == Strip(question)
       IN  IF user_text = <<>>
           THEN moderation' = Some(EmptyInputResult) /\ pc' = "route"
           ELSE IF run_pattern_filters(user_text) # None
           THEN moderation' = run_pattern_filters(user_text) /\ pc' = "route"
           ELSE moderation' = None /\ pc' = "mod_get_guard"
    /\ UNCHANGED <<heuristic_vars, parser_vars, chat_vars, engines, previous, request_vars, llm, decision, engine, response, raised, calls,
                   served, cache, next_id, thread_vars>>

\* ModerationGetGuard with a fault: the model named by the request is tried
\* first
ModerationGetGuard_general_first(outcome) ==
    /\ pc = "mod_get_guard"
    /\ LET r == get_ollama_llm(cache, next_id, PlainKey(model), outcome)
       IN  /\ cache' = r.cache
           /\ next_id' = r.next_id
           /\ llm' = r.handle
           /\ pc' = IF r.raised = "" THEN "mod_invoke" ELSE "mod_get_fallback"
    /\ calls' = Append(calls, Call("moderation", "get"))
    /\ UNCHANGED <<heuristic_vars, parser_vars, chat_vars, engines, previous, request_vars, moderation, decision, engine, response, raised,
                   served, thread_vars>>

\* get_moderation_llm, lines 18-20: get_ollama_llm("llama-guard3")
ModerationGetGuard(outcome) ==
    /\ pc = "mod_get_guard"
    /\ LET r == get_ollama_llm(cache, next_id, PlainKey(GuardModel), outcome)
       IN  /\ cache' = r.cache
           /\ next_id' = r.next_id
           /\ llm' = r.handle
           /\ pc' = IF r.raised = "" THEN "mod_invoke" ELSE "mod_get_fallback"
    /\ calls' = Append(calls, Call("moderation", "get"))
    /\ UNCHANGED <<heuristic_vars, parser_vars, chat_vars, engines, previous, request_vars, moderation, decision, engine, response, raised,
                   served, thread_vars>>

\* get_moderation_llm, line 21, and _run_llm_moderation, lines 129-132:
\* get_ollama_llm(model_name); only RuntimeError is caught
ModerationGetFallback(outcome) ==
    /\ pc = "mod_get_fallback"
    /\ LET r == get_ollama_llm(cache, next_id, PlainKey(model), outcome)
       IN  /\ cache' = r.cache
           /\ next_id' = r.next_id
           /\ llm' = r.handle
           /\ IF r.raised = ""
              THEN pc' = "mod_invoke" /\ moderation' = moderation /\ raised' = raised
              ELSE IF r.raised = "RuntimeError"
              THEN pc' = "route" /\ moderation' = Some(DefaultAllowResult)
                      /\ raised' = raised
              ELSE pc' = "failed" /\ moderation' = moderation /\ raised' = r.raised
    /\ calls' = Append(calls, Call("moderation", "get"))
    /\ UNCHANGED <<heuristic_vars, parser_vars, chat_vars, engines, previous, request_vars, decision, engine, response, served, thread_vars>>

\* _run_llm_moderation, lines 134-161, and run_safety_checks, lines 60-68:
\* moderation_llm.invoke(prompt) returns raw
ModerationInvokeReturns(raw) ==
    /\ pc = "mod_invoke"
    /\ moderation' = Some(parse_moderation_output(raw))
    /\ pc' = "route"
    /\ llm' = None
    /\ calls' = Append(calls, Call("moderation", "invoke"))
    /\ UNCHANGED <<heuristic_vars, parser_vars, chat_vars, engines, previous, request_vars, decision, engine, response, raised, served, cache,
                   next_id, thread_vars>>

\* _run_llm_moderation, lines 138-140: invoke raises; default allow
ModerationInvokeRaises ==
    /\ pc = "mod_invoke"
    /\ moderation' = Some(DefaultAllowResult)
    /\ pc' = "route"
    /\ llm' = None
    /\ calls' = Append(calls, Call("moderation", "invoke"))
    /\ UNCHANGED <<heuristic_vars, parser_vars, chat_vars, engines, previous, request_vars, decision, engine, response, raised, served, cache,
                   next_id, thread_vars>>

\* Route with a fault: classify_intent skips its heuristics and goes to the
\* classification model for every non-empty input
Route_skips_heuristics ==
    /\ pc = "route"
    /\ LET m == Val(moderation)
       IN  IF is_blocked(m)
           THEN decision' = Some(BlockedDecision(m)) /\ pc' = "dispatch"
           ELSE IF Strip(question) = <<>>
           THEN decision' = Some(ClassifiedDecision(m, EmptyIntentResult))
                   /\ pc' = "dispatch"
           ELSE decision' = None /\ pc' = "cls_get"
    /\ calls' = IF is_blocked(Val(moderation))
                THEN calls
                ELSE Append(calls, Call("classification", "classify_intent"))
    /\ UNCHANGED <<heuristic_vars, parser_vars, chat_vars, engines, previous, request_vars, moderation, llm, engine, response, raised,
                   served, cache, next_id, thread_vars>>

\* analyze_message, lines 35-44, and classify_intent, lines 57-64; the call
\* of classify_intent is logged
Route ==
    /\ pc = "route"
    /\ LET m == Val(moderation)
           user_text == Strip(question)
       IN  IF is_blocked(m)
           THEN decision' = Some(BlockedDecision(m)) /\ pc' = "dispatch"
           ELSE IF user_text = <<>>
           THEN decision' = Some(ClassifiedDecision(m, EmptyIntentResult))
                   /\ pc' = "dispatch"
           ELSE IF run_heuristics(user_text) # None
           THEN decision' = Some(ClassifiedDecision(m, Val(run_heuristics(user_text))))
                   /\ pc' = "dispatch"
           ELSE decision' = None /\ pc' = "cls_get"
    /\ calls' = IF is_blocked(Val(moderation))
                THEN calls
                ELSE Append(calls, Call("classification", "classify_intent"))
    /\ UNCHANGED <<heuristic_vars, parser_vars, chat_vars, engines, previous, request_vars, moderation, llm, engine, response, raised, served,
                   cache, next_id, thread_vars>>

\* _run_llm_classifier, lines 148-153: get_ollama_llm(model_name); a raise
\* ends in the qa fallback of classify_intent
ClassifierGet(outcome) ==
    /\ pc = "cls_get"
    /\ LET r == get_ollama_llm(cache, next_id, PlainKey(model), outcome)
       IN  /\ cache' = r.cache
           /\ next_id' = r.next_id
           /\ llm' = r.handle
           /\ IF r.raised = ""
              THEN pc' = "cls_invoke" /\ decision' = decision
              ELSE pc' = "dispatch"
                      /\ decision' = Some(ClassifiedDecision(Val(moderation),
                                                             FallbackIntentResult))
    /\ calls' = Append(calls, Call("classification", "get"))
    /\ UNCHANGED <<heuristic_vars, parser_vars, chat_vars, engines, previous, request_vars, moderation, engine, response, raised, served,
                   thread_vars>>

\* _run_llm_classifier, lines 150 and 154-171, classify_intent, lines 66-74,
\* analyze_message, lines 46-58: llm.invoke(prompt) returns raw
ClassifierInvokeReturns(raw) ==
    /\ pc = "cls_invoke"
    /\ LET r == parse_classifier_output(raw)
       IN  IF r.raised # ""
           THEN pc' = "failed" /\ raised' = r.raised /\ decision' = decision
           ELSE /\ pc' = "dispatch"
                /\ raised' = raised
                /\ decision' = Some(ClassifiedDecision(Val(moderation),
                        IF r.value = None THEN FallbackIntentResult ELSE Val(r.value)))
    /\ llm' = None
    /\ calls' = Append(calls, Call("classification", "invoke"))
    /\ UNCHANGED <<heuristic_vars, parser_vars, chat_vars, engines, previous, request_vars, moderation, engine, response, served, cache,
                   next_id, thread_vars>>

\* _run_llm_classifier, lines 151-153: invoke raises; qa fallback
ClassifierInvokeRaises ==
    /\ pc = "cls_invoke"
    /\ pc' = "dispatch"
    /\ decision' = Some(ClassifiedDecision(Val(moderation), FallbackIntentResult))
    /\ llm' = None
    /\ calls' = Append(calls, Call("classification", "invoke"))
    /\ UNCHANGED <<heuristic_vars, parser_vars, chat_vars, engines, previous, request_vars, moderation, engine, response, raised, served, cache,
                   next_id, thread_vars>>

\* DispatchBranch with a fault: a refusal is honoured only when moderation
\* blocked
DispatchBranch_blocked_only(d) ==
    IF d.should_refuse /\ is_blocked(d.moderation) THEN "refuse"
    ELSE IF d.should_escalate THEN "escalate"
    ELSE IF d.intent = "small_talk" THEN "small_talk"
    ELSE IF d.intent = "memory_write" THEN "memory_write"
    ELSE "retrieve"

\* DispatchBranch with a fault: should_refuse is not looked at
DispatchBranch_no_refusal(d) ==
    IF d.should_escalate THEN "escalate"
    ELSE IF d.intent = "small_talk" THEN "small_talk"
    ELSE IF d.intent = "memory_write" THEN "memory_write"
    ELSE "retrieve"

\* process_ask, lines 72-86: the branch the if chain takes for a decision
DispatchBranch(d) ==
    IF d.should_refuse THEN "refuse"
    ELSE IF d.should_escalate THEN "escalate"
    ELSE IF d.intent = "small_talk" THEN "small_talk"
    ELSE IF d.intent = "memory_write" THEN "memory_write"
    ELSE "retrieve"

\* process_ask, lines 72-84: the paths that answer without a further call,
\* and the choice of the final call
Dispatch ==
    /\ pc = "dispatch"
    /\ LET d == Val(decision)
           branch == DispatchBranch(d)
       IN  CASE branch = "refuse" ->
                    /\ response' = Some(build_response_payload(render_refusal_response(d), d))
                    /\ pc' = "done"
             [] branch = "escalate" ->
                    /\ response' =
                          Some(build_response_payload(render_escalation_response(d), d))
                    /\ pc' = "done"
             [] branch = "small_talk" -> response' = response /\ pc' = "st_get"
             [] branch = "memory_write" ->
                    /\ response' = Some(build_response_payload(MemoryAcknowledgement, d))
                    /\ pc' = "done"
             [] branch = "retrieve" -> response' = response /\ pc' = "qe_get"
    /\ UNCHANGED <<heuristic_vars, parser_vars, chat_vars, engines, previous, request_vars, moderation, llm, decision, engine, raised, calls,
                   served, cache, next_id, thread_vars>>

\* generate_small_talk_response, lines 12-13:
\* get_ollama_llm(model_name, temperature=0.6); a raise gives the fixed greeting
SmallTalkGet(outcome) ==
    /\ pc = "st_get"
    /\ LET r == get_ollama_llm(cache, next_id, SmallTalkKey(model), outcome)
       IN  /\ cache' = r.cache
           /\ next_id' = r.next_id
           /\ llm' = r.handle
           /\ IF r.raised = ""
              THEN pc' = "st_invoke" /\ response' = response
              ELSE pc' = "done"
                      /\ response' = Some(build_response_payload(SmallTalkFallback,
                                                                 Val(decision)))
    /\ calls' = Append(calls, Call("small_talk", "get"))
    /\ UNCHANGED <<heuristic_vars, parser_vars, chat_vars, engines, previous, request_vars, moderation, decision, engine, raised, served,
                   thread_vars>>

\* generate_small_talk_response, line 14, and process_ask, line 80
SmallTalkInvokeReturns(raw) ==
    /\ pc = "st_invoke"
    /\ response' = Some(build_response_payload(Strip(raw), Val(decision)))
    /\ pc' = "done"
    /\ llm' = None
    /\ calls' = Append(calls, Call("small_talk", "invoke"))
    /\ UNCHANGED <<heuristic_vars, parser_vars, chat_vars, engines, previous, request_vars, moderation, decision, engine, raised, served, cache,
                   next_id, thread_vars>>

\* SmallTalkInvokeRaises with a fault: the exception of invoke is not caught
SmallTalkInvokeRaises_propagates ==
    /\ pc = "st_invoke"
    /\ raised' = "ConnectionError"
    /\ pc' = "failed"
    /\ llm' = None
    /\ calls' = Append(calls, Call("small_talk", "invoke"))
    /\ UNCHANGED <<heuristic_vars, parser_vars, chat_vars, engines, previous, request_vars, moderation, decision, engine, response, served, cache,
                   next_id, thread_vars>>

\* generate_small_talk_response, lines 15-16: invoke raises
SmallTalkInvokeRaises ==
    /\ pc = "st_invoke"
    /\ response' = Some(build_response_payload(SmallTalkFallback, Val(decision)))
    /\ pc' = "done"
    /\ llm' = None
    /\ calls' = Append(calls, Call("small_talk", "invoke"))
    /\ UNCHANGED <<heuristic_vars, parser_vars, chat_vars, engines, previous, request_vars, moderation, decision, engine, raised, served, cache,
                   next_id, thread_vars>>

\* get_query_engine, line 26: get_ollama_llm(model_name); nothing catches a raise
QueryEngineGetLlm(outcome) ==
    /\ pc = "qe_get"
    /\ LET r == get_ollama_llm(cache, next_id, PlainKey(model), outcome)
       IN  /\ cache' = r.cache
           /\ next_id' = r.next_id
           /\ llm' = r.handle
           /\ pc' = IF r.raised = "" THEN "qe_engine" ELSE "failed"
           /\ raised' = r.raised
    /\ calls' = Append(calls, Call("retrieval", "get"))
    /\ UNCHANGED <<heuristic_vars, parser_vars, chat_vars, engines, previous, request_vars, moderation, decision, engine, response, served,
                   thread_vars>>

\* get_query_engine, lines 25-28: rag_index.as_query_engine builds a new
\* engine around the client
QueryEngineBuild ==
    /\ pc = "qe_engine"
    /\ engine' = Some([id |-> next_id, llm |-> Val(llm)])
    /\ engines' = Append(engines, [model |-> model,
                                   engine |-> [id |-> next_id, llm |-> Val(llm)]])
    /\ next_id' = next_id + 1
    /\ pc' = "qe_query"
    /\ calls' = Append(calls, Call("retrieval", "engine"))
    /\ UNCHANGED <<parser_vars, chat_vars, previous, heuristic_vars, request_vars, moderation, llm, decision, response,
                   raised, served, cache, thread_vars>>

\* get_query_engine, lines 25-28: as_query_engine raises
QueryEngineBuildRaises(exc) ==
    /\ pc = "qe_engine"
    /\ pc' = "failed"
    /\ raised' = exc
    /\ calls' = Append(calls, Call("retrieval", "engine"))
    /\ UNCHANGED <<heuristic_vars, parser_vars, chat_vars, engines, previous, request_vars, moderation, llm, decision, engine, response, served,
                   cache, next_id, thread_vars>>

\* process_ask, lines 88-90: ask_engine.query(request.question) returns
QueryReturns(answer) ==
    /\ pc = "qe_query"
    /\ response' = Some(build_response_payload(answer, Val(decision)))
    /\ pc' = "done"
    /\ calls' = Append(calls, Call("retrieval", "query"))
    /\ UNCHANGED <<heuristic_vars, parser_vars, chat_vars, engines, previous, request_vars, moderation, llm, decision, engine, raised, served,
                   cache, next_id, thread_vars>>

\* process_ask, line 88: ask_engine.query raises; nothing catches it
QueryRaises(exc) ==
    /\ pc = "qe_query"
    /\ pc' = "failed"
    /\ raised' = exc
    /\ calls' = Append(calls, Call("retrieval", "query"))
    /\ UNCHANGED <<heuristic_vars, parser_vars, chat_vars, engines, previous, request_vars, moderation, llm, decision, engine, response, served,
                   cache, next_id, thread_vars>>

\* process_ask has returned or raised; the server is ready for the next request
Finish ==
    /\ pc \in {"done", "failed"}
    /\ served < MaxRequests
    /\ pc' = "idle"
    /\ UNCHANGED <<heuristic_vars, parser_vars, chat_vars, engines, previous, request_vars, moderation, llm, decision, engine, response, raised,
                   calls, served, cache, next_id, thread_vars>>

Next ==
    \/ \E q \in Utterances, m \in ModelIds : Receive(q, m)
    \/ ModerateHeuristics
    \/ \E outcome \in ConstructOutcomes : ModerationGetGuard(outcome)
    \/ \E outcome \in ConstructOutcomes : ModerationGetFallback(outcome)
    \/ \E raw \in ModerationOutputs : ModerationInvokeReturns(raw)
    \/ ModerationInvokeRaises
    \/ Route
    \/ \E outcome \in ConstructOutcomes : ClassifierGet(outcome)
    \/ \E raw \in ClassifierOutputs : ClassifierInvokeReturns(raw)
    \/ ClassifierInvokeRaises
    \/ Dispatch
    \/ \E outcome \in ConstructOutcomes : SmallTalkGet(outcome)
    \/ \E raw \in SmallTalkOutputs : SmallTalkInvokeReturns(raw)
    \/ SmallTalkInvokeRaises
    \/ \E outcome \in ConstructOutcomes : QueryEngineGetLlm(outcome)
    \/ QueryEngineBuild
    \/ \E exc \in Exceptions : QueryEngineBuildRaises(exc)
    \/ \E answer \in QueryAnswers : QueryReturns(answer)
    \/ \E exc \in Exceptions : QueryRaises(exc)
    \/ Finish

Spec == Init /\ [][Next]_vars

\* the values of pc: where process_ask stands
Stages ==
    {"idle", "moderate", "mod_get_guard", "mod_get_fallback", "mod_invoke", "route",
     "cls_get", "cls_invoke", "dispatch", "st_get", "st_invoke", "qe_get", "qe_engine",
     "qe_query", "done", "failed"}

\* the request in progress leaves the stage it is in
RequestAdvances == pc \notin {"idle", "done", "failed"} /\ pc' \in Stages

\* process_ask is synchronous code with no wait of its own: its next
\* statement runs, and every call it makes of a collaborator returns or
\* raises in the end, so a request does not stay in a stage for ever
SpecLive == Init /\ [][Next]_vars /\ WF_pc(RequestAdvances)

(***************************************************************************)
(* Concurrent callers of get_ollama_llm.  functools.lru_cache looks the    *)
(* key up, and on a miss runs the wrapped function with no lock held, so   *)
(* other threads run between a thread's miss and the return of its         *)
(* constructor; the insertion that follows the return is not interrupted.  *)
(***************************************************************************)
\* the keys the program passes to get_ollama_llm
CacheKeys ==
    {PlainKey(GuardModel)}
    \cup {PlainKey(m) : m \in ModelIds}
    \cup {SmallTalkKey(m) : m \in ModelIds}

\* the number of objects the threads' calls may construct
MaxConstructions == 5

\* thread t calls get_ollama_llm(key): a hit returns the cached client, a miss
\* goes on to the constructor
ThreadLookup(t, key) ==
    /\ tpc[t] = "idle"
    /\ next_id <= MaxConstructions
    /\ tkey' = [tkey EXCEPT ![t] = key]
    /\ LET i == CacheIndex(cache, key)
       IN  IF i # 0
           THEN /\ cache' = LruTouch(cache, i)
                /\ tres' = [tres EXCEPT ![t] = Some(cache[i].handle)]
                /\ tpc' = [tpc EXCEPT ![t] = "hit"]
                /\ tconc' = tconc
           ELSE /\ cache' = cache
                /\ tres' = [tres EXCEPT ![t] = None]
                /\ tpc' = [tpc EXCEPT ![t] = "constructing"]
                /\ tconc' = [u \in Threads |->
                        IF u = t
                        THEN \E v \in Threads \ {t} :
                                tpc[v] = "constructing" /\ tkey[v] = key
                        ELSE tconc[u] \/ (tpc[u] = "constructing" /\ tkey[u] = key)]
    /\ UNCHANGED <<heuristic_vars, parser_vars, chat_vars, engines, previous, pc, request_vars, moderation, llm, decision, engine, response,
                   raised, calls, served, next_id>>

\* the constructor of thread t returns a new client, which lru_cache inserts
\* (unless the key was inserted meanwhile) and returns
ThreadConstructReturns(t) ==
    /\ tpc[t] = "constructing"
    /\ cache' = LruInsert(cache, tkey[t], NewClient(next_id, tkey[t]))
    /\ tres' = [tres EXCEPT ![t] = Some(NewClient(next_id, tkey[t]))]
    /\ next_id' = next_id + 1
    /\ tpc' = [tpc EXCEPT ![t] = "missed"]
    /\ UNCHANGED <<heuristic_vars, parser_vars, chat_vars, engines, previous, pc, request_vars, moderation, llm, decision, engine, response,
                   raised, calls, served, tkey, tconc>>

\* the constructor of thread t raises: nothing is cached
ThreadConstructRaises(t) ==
    /\ tpc[t] = "constructing"
    /\ tpc' = [tpc EXCEPT ![t] = "raised"]
    /\ UNCHANGED <<heuristic_vars, parser_vars, chat_vars, engines, previous, pc, request_vars, moderation, llm, decision, engine, response,
                   raised, calls, served, cache, next_id, tkey, tres, tconc>>

\* the caller of thread t has its result and drops it; t may call again
ThreadDone(t) ==
    /\ tpc[t] \in {"hit", "missed", "raised"}
    /\ tpc' = [tpc EXCEPT ![t] = "idle"]
    /\ tkey' = [tkey EXCEPT ![t] = PlainKey("mistral")]
    /\ tres' = [tres EXCEPT ![t] = None]
    /\ tconc' = [tconc EXCEPT ![t] = FALSE]
    /\ UNCHANGED <<heuristic_vars, parser_vars, chat_vars, engines, previous, pc, request_vars, moderation, llm, decision, engine, response,
                   raised, calls, served, cache, next_id>>

NextCache ==
    \/ \E t \in Threads, key \in CacheKeys : ThreadLookup(t, key)
    \/ \E t \in Threads : ThreadConstructReturns(t)
    \/ \E t \in Threads : ThreadConstructRaises(t)
    \/ \E t \in Threads : ThreadDone(t)

SpecCache == Init /\ [][NextCache]_vars

(***************************************************************************)
(* Sequential callers of get_ollama_llm: each call runs to its end before  *)
(* the next one starts.  The caller is thread 1; tpc tells how its last    *)
(* call ended, tkey the key it passed and tres what it got.                *)
(***************************************************************************)
\* the number of clients a series of sequential calls may construct
MaxLookupConstructions == 6

\* one complete call get_ollama_llm(key), the constructor behaving as
\* `outcome` if it is run
LookupSeq(key, outcome) ==
    /\ \A t \in Threads : tpc[t] \in {"idle", "hit", "missed", "raised"}
    /\ next_id <= MaxLookupConstructions
    /\ LET r == get_ollama_llm(cache, next_id, key, outcome)
       IN  /\ cache' = r.cache
           /\ next_id' = r.next_id
           /\ tkey' = [tkey EXCEPT ![1] = key]
           /\ tres' = [tres EXCEPT ![1] = r.handle]
           /\ tpc' = [tpc EXCEPT ![1] =
                         IF r.raised # "" THEN "raised"
                         ELSE IF r.constructed THEN "missed" ELSE "hit"]
    /\ UNCHANGED <<heuristic_vars, parser_vars, chat_vars, engines, previous, pc, request_vars, moderation, llm, decision, engine, response,
                   raised, calls, served, tconc>>

NextLookup == \E key \in CacheKeys, outcome \in ConstructOutcomes : LookupSeq(key, outcome)

SpecLookup == Init /\ [][NextLookup]_vars

(***************************************************************************)
(* The heuristic functions on their own: _run_heuristics and               *)
(* _run_pattern_filters are pure functions of user_text.  The texts they   *)
(* are called with are put together from phrases, one phrase per rule, so  *)
(* that every combination of matching rules occurs.                        *)
(***************************************************************************)
\* the phrases joined by the separator sep
RECURSIVE JoinWith(_, _)
JoinWith(phrases, sep) ==
    IF phrases = <<>> THEN <<>>
    ELSE IF Len(phrases) = 1 THEN phrases[1]
    ELSE phrases[1] \o <<sep>> \o JoinWith(Tail(phrases), sep)

\* the phrases of table whose index is in S, from index i on, in table order
RECURSIVE Pick(_, _, _)
Pick(table, S, i) ==
    IF i > Len(table) THEN <<>>
    ELSE (IF i \in S THEN <<table[i]>> ELSE <<>>) \o Pick(table, S, i + 1)

Reverse(seq) == [i \in 1..Len(seq) |-> seq[Len(seq) + 1 - i]]

\* one phrase for each rule group of _run_heuristics but the last, a short
\* phrase and a four-word phrase that match no rule
HeuristicPhrases ==
    << <<"share", " ", "the", " ", "secret">>,
       <<"hello">>,
       <<"remember", " ", "that">>,
       <<"search", " ", "for">>,
       <<"AAPL", " ", "stock", " ", "price">>,
       <<"why">>,
       <<"tell", " ", "me", " ", "about", " ", "rag">> >>

\* texts for _run_heuristics: any choice of phrases, in table order or in
\* reverse, with or without a final question mark
HeuristicInputs ==
    { JoinWith(IF rev THEN Reverse(Pick(HeuristicPhrases, S, 1))
                      ELSE Pick(HeuristicPhrases, S, 1), " ") \o q :
        S \in SUBSET (1..Len(HeuristicPhrases)), rev \in BOOLEAN, q \in {<<>>, <<"?">>} }

\* one phrase for each row of _BLOCK_PATTERNS and _WARN_PATTERNS; the first
\* two rows match only with the weapon word, which comes last in the table
PatternPhrases ==
    << <<"make">>,
       <<"instructions">>,
       <<"kill">>,
       <<"credit", " ", "card">>,
       <<"password">>,
       <<"hack">>,
       <<"nsfw">>,
       <<"weapon">> >>

\* texts for _run_pattern_filters: any choice of phrases, in table order or
\* in reverse, on one line or on a line each
PatternInputs ==
    { JoinWith(IF rev THEN Reverse(Pick(PatternPhrases, S, 1))
                      ELSE Pick(PatternPhrases, S, 1), sep) :
        S \in SUBSET (1..Len(PatternPhrases)), rev \in BOOLEAN, sep \in {" ", "\n"} }

\* the texts the functions are called with: both callers strip the text and
\* return before the call when nothing is left.  The last five are texts
\* where a pattern is tried inside a word or across a line break.
FilterInputs ==
    (HeuristicInputs \cup PatternInputs \cup {Strip(u) : u \in Utterances}
        \cup { <<"adminpassword">>,
               <<"is", " ", "RootPassword", " ", "ok", "?">>,
               <<"my_password">>,
               <<"step", "\n", "by", " ", "step", " ", "bomb">>,
               <<"step", " ", "by", " ", "step", "\n", "bomb">> }) \ {<<>>}

\* a text is chosen; no request is in progress and nothing is cached
InitFilters ==
    /\ heuristic_text \in FilterInputs
    /\ heuristic_intent = None
    /\ heuristic_match = None
    /\ returned = {}
    /\ pc = "idle"
    /\ question = <<>>
    /\ model = "mistral"
    /\ moderation = None
    /\ llm = None
    /\ decision = None
    /\ engine = None
    /\ response = None
    /\ raised = ""
    /\ calls = <<>>
    /\ served = 0
    /\ cache = <<>>
    /\ next_id = 1
    /\ tpc = [t \in Threads |-> "idle"]
    /\ tkey = [t \in Threads |-> PlainKey("mistral")]
    /\ tres = [t \in Threads |-> None]
    /\ tconc = [t \in Threads |-> FALSE]
    /\ engines = <<>>
    /\ previous = [question |-> <<>>, moderation |-> None, decision |-> None]
    /\ chat_pc = "idle"
    /\ messages = <<>>
    /\ received = <<>>
    /\ last_user_message = None
    /\ chat_call = None
    /\ chat_engines = <<>>
    /\ langchain_llms = <<>>
    /\ chat_result = None
    /\ llm_output = <<>>
    /\ output_parts = [kind |-> "none"]
    /\ parsed = None

\* heuristic_intent = _run_heuristics(user_text), intent_classifier.py line 61
ApplyHeuristics ==
    /\ "_run_heuristics" \notin returned
    /\ heuristic_intent' = run_heuristics(heuristic_text)
    /\ returned' = returned \cup {"_run_heuristics"}
    /\ UNCHANGED <<parser_vars, chat_vars, previous, heuristic_text, heuristic_match, engines, pc, request_vars, moderation,
                   llm, decision, engine, response, raised, calls, served, cache,
                   next_id, thread_vars>>

\* heuristic_match = _run_pattern_filters(user_text), safety.py line 56
ApplyPatternFilters ==
    /\ "_run_pattern_filters" \notin returned
    /\ heuristic_match' = run_pattern_filters(heuristic_text)
    /\ returned' = returned \cup {"_run_pattern_filters"}
    /\ UNCHANGED <<parser_vars, chat_vars, previous, heuristic_text, heuristic_intent, engines, pc, request_vars,
                   moderation, llm, decision, engine, response, raised, calls, served,
                   cache, next_id, thread_vars>>

NextFilters == ApplyHeuristics \/ ApplyPatternFilters

SpecFilters == InitFilters /\ [][NextFilters]_vars

(***************************************************************************)
(* The parsing of a model's output on its own: what _run_llm_moderation    *)
(* makes of the text invoke returned is a pure function of that text.  The *)
(* texts are put together from the four lines the prompt asks for, each    *)
(* line absent, present with nothing after the colon, or present with a    *)
(* value.                                                                  *)
(***************************************************************************)
\* the field names of _build_moderation_prompt, in the order of its lines
ModerationFields == <<"verdict", "severity", "categories", "rationale">>

\* the line of a field: "name:" or "name: value"
FieldLine(name, o) ==
    IF Val(o) = <<>> THEN <<name, ":">> ELSE <<name, ":", " ">> \o Val(o)

\* the lines of the fields that are present, from field i on
RECURSIVE FieldLines(_, _)
FieldLines(parts, i) ==
    IF i > Len(ModerationFields) THEN <<>>
    ELSE (IF parts[ModerationFields[i]] = None
          THEN <<>>
          ELSE <<FieldLine(ModerationFields[i], parts[ModerationFields[i]])>>)
            \o FieldLines(parts, i + 1)

\* what the model can write: for each field no line (None), a line with
\* nothing after the colon, or a line with a value (the last verdict and
\* the last severity are no member of their enumeration; the last rationale
\* holds a word that ends with the name of a field, and a colon)
ModerationParts ==
    [kind : {"moderation"},
     verdict : {None, Some(<<>>), Some(<<"block">>), Some(<<"warn">>), Some(<<"maybe">>)},
     severity : {None, Some(<<>>), Some(<<"high">>), Some(<<"severe">>)},
     categories : {None, Some(<<>>), Some(<<"violence", ",", " ", "weapons">>)},
     rationale : {None, Some(<<>>), Some(<<"harmful", " ", "request">>),
                  Some(<<"final_verdict", ":", " ", "block">>)}]

\* the text of a choice: its lines, one after the other, and a final newline
ModerationText(parts) == JoinWith(FieldLines(parts, 1), "\n") \o <<"\n">>

\* JSON objects the classification model can answer with: each decodes to a
\* dict; the last two have the characters json in their rationale, as a
\* word and inside a word
ClassifierObjects ==
    { <<"{", Quote, "intent", Quote, ":", " ", Quote, "qa", Quote, ",", " ",
        Quote, "rationale", Quote, ":", " ", Quote, "needs", " ", "lookup", Quote, "}">>,
      <<"{", Quote, "intent", Quote, ":", Quote, "escalate", Quote,
        ",", Quote, "reason", Quote, ":", Quote, "human", Quote, "}">>,
      <<"{", Quote, "intent", Quote, ":", Quote, "bad", Quote, "}">>,
      <<"{", Quote, "intent", Quote, ":", " ", Quote, "qa", Quote, ",", " ",
        Quote, "rationale", Quote, ":", " ", Quote, "asks", " ", "about", " ", "json",
        Quote, "}">>,
      <<"{", Quote, "intent", Quote, ":", Quote, "search", Quote, ",",
        Quote, "rationale", Quote, ":", Quote, "a", " ", "jsonl", " ", "file", Quote, "}">> }

\* every way the model can write an object: bare, or between one pair of
\* fences with no tag after the opening fence or with json in one of three
\* spellings
ClassifierParts ==
    [kind : {"classifier"}, fenced : {FALSE}, tag : {None}, object : ClassifierObjects]
    \cup [kind : {"classifier"}, fenced : {TRUE},
          tag : {None, Some("json"), Some("JSON"), Some("Json")},
          object : ClassifierObjects]

\* the text of a choice: the object, or fence, tag, newline, object,
\* newline, fence
ClassifierText(parts) ==
    IF parts.fenced
    THEN <<Fence>> \o (IF parts.tag = None THEN <<>> ELSE <<Val(parts.tag)>>)
            \o <<"\n">> \o parts.object \o <<"\n", Fence>>
    ELSE parts.object

\* a text has been returned by invoke; no request is in progress and
\* nothing is cached
InitParsers ==
    /\ output_parts \in ModerationParts \cup ClassifierParts
    /\ llm_output = IF output_parts.kind = "moderation"
                    THEN ModerationText(output_parts)
                    ELSE ClassifierText(output_parts)
    /\ parsed = None
    /\ returned = {}
    /\ heuristic_text = <<>>
    /\ heuristic_intent = None
    /\ heuristic_match = None
    /\ pc = "idle"
    /\ question = <<>>
    /\ model = "mistral"
    /\ moderation = None
    /\ llm = None
    /\ decision = None
    /\ engine = None
    /\ response = None
    /\ raised = ""
    /\ calls = <<>>
    /\ served = 0
    /\ cache = <<>>
    /\ next_id = 1
    /\ tpc = [t \in Threads |-> "idle"]
    /\ tkey = [t \in Threads |-> PlainKey("mistral")]
    /\ tres = [t \in Threads |-> None]
    /\ tconc = [t \in Threads |-> FALSE]
    /\ engines = <<>>
    /\ previous = [question |-> <<>>, moderation |-> None, decision |-> None]
    /\ chat_pc = "idle"
    /\ messages = <<>>
    /\ received = <<>>
    /\ last_user_message = None
    /\ chat_call = None
    /\ chat_engines = <<>>
    /\ langchain_llms = <<>>
    /\ chat_result = None

\* _run_llm_moderation, lines 137 and 142-161, after invoke returned
ApplyModerationParse ==
    /\ output_parts.kind = "moderation"
    /\ "_run_llm_moderation" \notin returned
    /\ parsed' = Some(parse_moderation_output(llm_output))
    /\ returned' = returned \cup {"_run_llm_moderation"}
    /\ UNCHANGED <<chat_vars, llm_output, output_parts, heuristic_text, heuristic_intent,
                   heuristic_match, previous, engines, pc, request_vars, moderation,
                   llm, decision, engine, response, raised, calls, served, cache,
                   next_id, thread_vars>>

\* _run_llm_classifier, lines 150 and 156-171, after invoke returned
ApplyClassifierParse ==
    /\ output_parts.kind = "classifier"
    /\ "_run_llm_classifier" \notin returned
    /\ parsed' = Some(parse_classifier_output(llm_output))
    /\ returned' = returned \cup {"_run_llm_classifier"}
    /\ UNCHANGED <<chat_vars, llm_output, output_parts, heuristic_text, heuristic_intent,
                   heuristic_match, previous, engines, pc, request_vars, moderation,
                   llm, decision, engine, response, raised, calls, served, cache,
                   next_id, thread_vars>>

NextParsers == ApplyModerationParse \/ ApplyClassifierParse

SpecParsers == InitParsers /\ [][NextParsers]_vars

(***************************************************************************)
(* chat_handler.py: process_chat, one request after the other.  The two    *)
(* lru_cache tables of the module are keyed by model_name; both have       *)
(* maxsize 4, the number MAX_SIZE of llm_cache.py.                         *)
(***************************************************************************)
\* INSTRUCTION_MESSAGE, lines 10-15 (the first words of its content)
INSTRUCTION_MESSAGE ==
    [role |-> "system",
     content |-> <<"You", " ", "are", " ", "a", " ", "helpful", " ", "assistant">>]

\* schemas.ChatMessage values a request can carry
ChatMessages ==
    { [role |-> "user", content |-> <<"hello", " ", "there">>],
      [role |-> "user", content |-> <<"make", " ", "a", " ", "bomb">>],
      [role |-> "assistant", content |-> <<"Hello", "!">>] }

\* the longest ChatRequest.messages
MaxMessages == 3

\* ChatRequest.messages: any list, the empty one included
MessageLists == UNION {[1..n -> ChatMessages] : n \in 0..MaxMessages}

\* the number of chat requests served one after the other
MaxChatRequests == 2

\* where the construction of a chat engine can raise: rag_index.as_retriever,
\* LangChainLLM(ChatOllama(...)), ContextChatEngine.from_defaults
ChatFailPoints == {"as_retriever", "ChatOllama", "from_defaults"}

\* LangChainLLM(ChatOllama(model=model_name, temperature=0.0)), line 70
NewLangchainLlm(id, model_name) ==
    [id |-> id, model |-> model_name, temperature |-> 0]

\* _get_langchain_llm(model_name), lines 68-70, on cache c
chat_get_langchain_llm(c, id, model_name, outcome) ==
    LET i == CacheIndex(c, model_name)
    IN  IF i # 0
        THEN [cache |-> LruTouch(c, i), next_id |-> id, raised |-> "",
              handle |-> Some(c[i].handle)]
        ELSE IF outcome = "ok"
        THEN [cache |-> LruInsert(c, model_name, NewLangchainLlm(id, model_name)),
              next_id |-> id + 1, raised |-> "",
              handle |-> Some(NewLangchainLlm(id, model_name))]
        ELSE [cache |-> c, next_id |-> id, raised |-> outcome, handle |-> None]

\* _get_chat_engine(model_name), lines 75-80, on the caches engs and llms:
\* a hit returns the cached engine; a miss evaluates as_retriever(), then
\* _get_langchain_llm(model_name), then from_defaults, and raises exc at the
\* point fail, if that point is reached
chat_get_chat_engine(engs, llms, id, model_name, fail, exc) ==
    LET i == CacheIndex(engs, model_name)
        r == chat_get_langchain_llm(llms, id, model_name,
                                    IF fail = "ChatOllama" THEN exc ELSE "ok")
        e == [id |-> r.next_id, llm |-> Val(r.handle)]
    IN  IF i # 0
        THEN [engines |-> LruTouch(engs, i), llms |-> llms, next_id |-> id,
              raised |-> "", handle |-> Some(engs[i].handle)]
        ELSE IF fail = "as_retriever"
        THEN [engines |-> engs, llms |-> llms, next_id |-> id, raised |-> exc,
              handle |-> None]
        ELSE IF r.raised # ""
        THEN [engines |-> engs, llms |-> r.cache, next_id |-> r.next_id,
              raised |-> r.raised, handle |-> None]
        ELSE IF fail = "from_defaults"
        THEN [engines |-> engs, llms |-> r.cache, next_id |-> r.next_id,
              raised |-> exc, handle |-> None]
        ELSE [engines |-> LruInsert(engs, model_name, e), llms |-> r.cache,
              next_id |-> r.next_id + 1, raised |-> "", handle |-> Some(e)]

\* a ChatRequest arrives
ChatReceive(msgs, m) ==
    /\ chat_pc = "idle"
    /\ served < MaxChatRequests
    /\ chat_pc' = "last"
    /\ messages' = msgs
    /\ received' = msgs
    /\ model' = m
    /\ served' = served + 1
    /\ last_user_message' = None
    /\ chat_call' = None
    /\ chat_result' = None
    /\ raised' = ""
    /\ calls' = <<>>
    /\ UNCHANGED <<heuristic_vars, parser_vars, chat_engines, langchain_llms, engines,
                   previous, pc, question, moderation, llm, decision, engine, response,
                   cache, next_id, thread_vars>>

\* ChatTakeLast with a fault: the last message is read but not removed
ChatTakeLast_keeps_last ==
    /\ chat_pc = "last"
    /\ IF messages = <<>>
       THEN /\ chat_pc' = "failed"
            /\ raised' = "IndexError"
            /\ UNCHANGED <<messages, last_user_message, chat_result>>
       ELSE IF messages[Len(messages)].role # "user"
       THEN /\ chat_pc' = "done"
            /\ chat_result' = Some(<<"Error: Last message must be from the user.">>)
            /\ UNCHANGED <<messages, last_user_message, raised>>
       ELSE /\ chat_pc' = "get_engine"
            /\ last_user_message' = Some(messages[Len(messages)].content)
            /\ messages' = messages
            /\ UNCHANGED <<chat_result, raised>>
    /\ UNCHANGED <<heuristic_vars, parser_vars, received, chat_call, chat_engines,
                   langchain_llms, engines, previous, pc, request_vars, moderation, llm,
                   decision, engine, response, calls, served, cache, next_id,
                   thread_vars>>

\* process_chat, lines 47-52: messages[-1] of an empty list raises
\* IndexError; a last message of another role returns the error text;
\* otherwise the last message is popped
ChatTakeLast ==
    /\ chat_pc = "last"
    /\ IF messages = <<>>
       THEN /\ chat_pc' = "failed"
            /\ raised' = "IndexError"
            /\ UNCHANGED <<messages, last_user_message, chat_result>>
       ELSE IF messages[Len(messages)].role # "user"
       THEN /\ chat_pc' = "done"
            /\ chat_result' = Some(<<"Error: Last message must be from the user.">>)
            /\ UNCHANGED <<messages, last_user_message, raised>>
       ELSE /\ chat_pc' = "get_engine"
            /\ last_user_message' = Some(messages[Len(messages)].content)
            /\ messages' = SubSeq(messages, 1, Len(messages) - 1)
            /\ UNCHANGED <<chat_result, raised>>
    /\ UNCHANGED <<heuristic_vars, parser_vars, received, chat_call, chat_engines,
                   langchain_llms, engines, previous, pc, request_vars, moderation, llm,
                   decision, engine, response, calls, served, cache, next_id,
                   thread_vars>>

\* process_chat, lines 55-61: _get_chat_engine(request.model), then the call
\* chat_engine.chat(message=last_user_message, chat_history=[...]) is made
ChatGetEngine(fail, exc) ==
    /\ chat_pc = "get_engine"
    /\ LET r == chat_get_chat_engine(chat_engines, langchain_llms, next_id, model,
                                     fail, exc)
       IN  /\ chat_engines' = r.engines
           /\ langchain_llms' = r.llms
           /\ next_id' = r.next_id
           /\ raised' = r.raised
           /\ IF r.raised # ""
              THEN chat_pc' = "failed" /\ chat_call' = None /\ calls' = calls
              ELSE /\ chat_pc' = "chat"
                   /\ chat_call' =
                         Some([engine |-> Val(r.handle),
                               message |-> Val(last_user_message),
                               chat_history |-> <<INSTRUCTION_MESSAGE>> \o messages])
                   /\ calls' = Append(calls, Call("chat", "chat"))
    /\ UNCHANGED <<heuristic_vars, parser_vars, messages, received, last_user_message,
                   chat_result, engines,
                   previous, pc, request_vars, moderation, llm, decision, engine,
                   response, served, cache, thread_vars>>

\* process_chat, lines 58-62: chat returns and response.response is returned
ChatReturns(answer) ==
    /\ chat_pc = "chat"
    /\ chat_pc' = "done"
    /\ chat_result' = Some(answer)
    /\ UNCHANGED <<heuristic_vars, parser_vars, messages, received, last_user_message, chat_call,
                   chat_engines, langchain_llms, engines, previous, pc, request_vars,
                   moderation, llm, decision, engine, response, raised, calls, served,
                   cache, next_id, thread_vars>>

\* process_chat, lines 58-61: chat raises
ChatRaises(exc) ==
    /\ chat_pc = "chat"
    /\ chat_pc' = "failed"
    /\ raised' = exc
    /\ UNCHANGED <<heuristic_vars, parser_vars, messages, received, last_user_message, chat_call,
                   chat_engines, langchain_llms, chat_result, engines, previous, pc,
                   request_vars, moderation, llm, decision, engine, response, calls,
                   served, cache, next_id, thread_vars>>

\* process_chat has returned or raised; the server is ready for the next request
ChatFinish ==
    /\ chat_pc \in {"done", "failed"}
    /\ served < MaxChatRequests
    /\ chat_pc' = "idle"
    /\ UNCHANGED <<heuristic_vars, parser_vars, messages, received, last_user_message, chat_call,
                   chat_engines, langchain_llms, chat_result, engines, previous, pc,
                   request_vars, moderation, llm, decision, engine, response, raised,
                   calls, served, cache, next_id, thread_vars>>

NextChat ==
    \/ \E msgs \in MessageLists, m \in ModelIds : ChatReceive(msgs, m)
    \/ ChatTakeLast
    \/ \E fail \in {"ok"} \cup ChatFailPoints, exc \in Exceptions : ChatGetEngine(fail, exc)
    \/ \E answer \in QueryAnswers : ChatReturns(answer)
    \/ \E exc \in Exceptions : ChatRaises(exc)
    \/ ChatFinish

SpecChat == Init /\ [][NextChat]_vars

(***************************************************************************)
(* Properties                                                              *)
(***************************************************************************)
\* the stages of the calls logged so far
CallsOf(stage) == {i \in 1..Len(calls) : calls[i].stage = stage}

LastCall == calls[Len(calls)]

\* every token of the text is whitespace (empty text included)
IsBlank(s) == \A i \in 1..Len(s) : s[i] \in Whitespace

\* C1: whenever the moderation result of the request has verdict block, from
\* the empty-input check, a block pattern or the moderation model, the
\* decision has intent bad, should_refuse true and should_escalate false,
\* and classify_intent and the classification model are not run.
C1_BlockShortCircuits ==
    (moderation # None /\ Val(moderation).verdict = "block") =>
        /\ CallsOf("classification") = {}
        /\ pc \notin {"cls_get", "cls_invoke", "failed"}
        /\ (pc \in {"dispatch", "done"}) => decision # None
        /\ decision # None =>
              /\ Val(decision).intent = "bad"
              /\ Val(decision).should_refuse
              /\ ~Val(decision).should_escalate
              /\ Val(decision).moderation = Val(moderation)

\* a request blocked by the moderation model, at low severity, has been answered
C1_Witness ==
    /\ pc = "done"
    /\ Val(moderation).verdict = "block"
    /\ Val(moderation).severity = "low"
    /\ LastCall = Call("moderation", "invoke")

\* C2: whenever the decision has should_refuse true, process_ask makes no
\* small-talk call, builds no query engine and runs no retrieval query, and
\* the answer it returns is the refusal text.
C2_RefusalCallsNothing ==
    (decision # None /\ Val(decision).should_refuse) =>
        /\ CallsOf("small_talk") = {}
        /\ CallsOf("retrieval") = {}
        /\ engine = None
        /\ pc \in {"dispatch", "done", "idle"}
        /\ response # None =>
              Val(response).answer \in
                  { <<"I'm sorry, but I can't assist with that request.">>,
                    <<"I'm sorry, but I can't comply with that request.">> }

\* a request that moderation let through was refused for its intent
C2_Witness ==
    /\ pc = "done"
    /\ Val(decision).should_refuse
    /\ Val(moderation).verdict # "block"
    /\ response # None

\* C3: for an empty or whitespace-only utterance run_safety_checks returns
\* block with severity high, the decision refuses, and no model is obtained
\* from the cache or invoked.
C3_BlankIsBlocked ==
    (IsBlank(question) /\ pc \notin {"idle", "moderate"}) =>
        /\ moderation # None
        /\ Val(moderation).verdict = "block"
        /\ Val(moderation).severity = "high"
        /\ calls = <<>>
        /\ llm = None
        /\ pc \in {"route", "dispatch", "done"}
        /\ decision # None => Val(decision).should_refuse

\* a whitespace-only request has been answered
C3_Witness ==
    /\ pc = "done"
    /\ question = <<" ", "\t">>
    /\ Val(decision).should_refuse

\* C4: process_ask never raises, whatever collaborator fails at whatever
\* stage; it always returns a payload.
C4_NeverRaises == pc # "failed" /\ raised = ""

\* C5: the model-backed classifier never raises, whatever the classification
\* model returns or raises: the classification stage never ends in an
\* exception that leaves process_ask.
C5_ClassifierNeverRaises ==
    ~(pc = "failed" /\ calls # <<>> /\ LastCall.stage = "classification")

\* C6: when the pattern filters are inconclusive and the moderation model
\* cannot be obtained, with any exception type, run_safety_checks does not
\* raise: the moderation stage never ends in an exception that leaves
\* process_ask.
C6_ModerationNeverRaises ==
    ~(pc = "failed" /\ calls # <<>> /\ LastCall.stage = "moderation")

\* C7: in every decision analyze_message returns, should_refuse is true
\* exactly when the intent is bad; a warn verdict with another intent does
\* not refuse.
C7_RefuseIffBad ==
    decision # None => (Val(decision).should_refuse <=> Val(decision).intent = "bad")

\* a warn verdict with an intent other than bad was decided, and not refused
C7_Witness ==
    /\ decision # None
    /\ Val(decision).moderation.verdict = "warn"
    /\ Val(decision).intent \notin {"bad", "escalate"}
    /\ ~Val(decision).should_refuse
    /\ pc = "done"

\* C8: the query engine is built and queried only for the intents qa and
\* search; for bad, escalate, small_talk, memory_write and finance_quote no
\* retrieval call is made.
C8_RetrievalOnlyForQaSearch ==
    (decision # None /\ Val(decision).intent \notin {"qa", "search"}) =>
        /\ CallsOf("retrieval") = {}
        /\ pc \notin {"qe_get", "qe_engine", "qe_query"}

\* C9: every value process_ask returns is the envelope of
\* build_response_payload: answer, intent (one of the seven labels), the
\* verdict, severity, categories and rationale of the moderation result, and
\* routing_rationale; and process_ask returns nothing else.
C9_EnvelopeOnEveryPath ==
    /\ pc = "done" => response # None
    /\ response # None =>
          /\ DOMAIN Val(response) = {"answer", "intent", "moderation", "routing_rationale"}
          /\ DOMAIN Val(response).moderation =
                {"verdict", "severity", "categories", "rationale"}
          /\ Val(response).intent \in IntentLabel
          /\ Val(response).intent = Val(decision).intent
          /\ Val(response).moderation.verdict = Val(moderation).verdict
          /\ Val(response).moderation.severity = Val(moderation).severity
          /\ Val(response).moderation.categories = Val(moderation).categories
          /\ Val(response).moderation.rationale = Val(moderation).rationale
          /\ Val(response).routing_rationale = Val(decision).rationale

\* a retrieval answer was returned in its envelope
C9_Witness ==
    /\ pc = "done"
    /\ response # None
    /\ Val(response).answer \in QueryAnswers
    /\ Val(response).routing_rationale # Val(response).moderation.rationale

\* C10: two concurrent lookups of get_ollama_llm for the same key, the key
\* not cached when either starts, return the same client.
C10_ConcurrentSameHandle ==
    \A t, u \in Threads :
        (/\ t # u
         /\ tpc[t] = "missed" /\ tpc[u] = "missed"
         /\ tkey[t] = tkey[u]
         /\ tconc[t] /\ tconc[u])
        => tres[t] = tres[u]

\* the entries of cache c for keys other than key, in their order
EntriesExcept(c, key) ==
    LET Other(e) == e.key # key
    IN  SelectSeq(c, Other)

\* C11: in a sequential series of lookups a handle is constructed at most
\* once per key while the key is cached: a lookup of a cached key constructs
\* nothing and returns the very handle the cache holds, which stays cached; a
\* lookup of a key not cached constructs one handle, inserts it and returns
\* it; and the cache never holds two entries for one key.
C11_ConstructedOncePerKey ==
    [][LET key == tkey'[1]
           i == CacheIndex(cache, key)
       IN  /\ IF i # 0
              THEN /\ tpc'[1] = "hit"
                   /\ next_id' = next_id
                   /\ tres'[1] = Some(cache[i].handle)
                   /\ \E j \in 1..Len(cache') : cache'[j] = cache[i]
              ELSE /\ tpc'[1] \in {"missed", "raised"}
                   /\ tpc'[1] = "raised" => cache' = cache /\ next_id' = next_id
                   /\ tpc'[1] = "missed" =>
                         /\ next_id' = next_id + 1
                         /\ Val(tres'[1]).id = next_id
                         /\ \E j \in 1..Len(cache') :
                               cache'[j] = [key |-> key, handle |-> Val(tres'[1])]
           /\ \A a, b \in 1..Len(cache') :
                 a # b => /\ cache'[a].key # cache'[b].key
                          /\ cache'[a].handle.id # cache'[b].handle.id
      ]_vars

\* the first client ever constructed is returned by a hit after four other
\* clients were constructed
C11_Witness ==
    /\ tpc[1] = "hit"
    /\ tres[1] # None
    /\ Val(tres[1]).id = 1
    /\ next_id = 6

\* C12: the cache never holds more than MAX_SIZE = 4 entries; the key of a
\* lookup that returns, hit or insert, becomes the most recently used while
\* the other entries keep their order; and a miss on a full cache removes
\* the least recently used entry and no other.
C12_BoundedLru ==
    [][LET key == tkey'[1]
       IN  /\ Len(cache') <= MAX_SIZE
           /\ tpc'[1] \in {"hit", "missed"} =>
                 /\ cache' # <<>>
                 /\ cache'[Len(cache')].key = key
                 /\ EntriesExcept(cache', key) =
                       IF CacheIndex(cache, key) # 0 THEN EntriesExcept(cache, key)
                       ELSE IF Len(cache) = MAX_SIZE THEN Tail(cache)
                       ELSE cache
      ]_vars

\* a fifth client was inserted into a full cache while the first client,
\* used again in between, stayed cached
C12_Witness ==
    /\ tpc[1] = "missed"
    /\ Len(cache) = MAX_SIZE
    /\ Val(tres[1]).id = 5
    /\ \E j \in 1..Len(cache) : cache[j].handle.id = 1

\* C13: query engines are cached like clients: two calls of get_query_engine
\* for the same model name return the same engine, the engine being built on
\* the first call only.  (An engine cache of four entries evicts nothing in
\* the few calls of a run.)
C13_EngineReused ==
    \A i, j \in 1..Len(engines) :
        engines[i].model = engines[j].model => engines[i].engine = engines[j].engine

\* the positions in the call log of the calls (stage, op)
IndexesOf(stage, op) == {i \in 1..Len(calls) : calls[i] = Call(stage, op)}

\* the positions of the final call: small-talk generation or retrieval query
FinalCalls == IndexesOf("small_talk", "invoke") \cup IndexesOf("retrieval", "query")

\* C14: in a run of process_ask the moderation model is invoked at most
\* once, then the classification model at most once, then at most one final
\* call (small-talk generation or retrieval query) is made, in this order;
\* and the final call is not started, nor its client or engine obtained,
\* unless moderation has returned a verdict other than block.
C14_CallOrder ==
    /\ Cardinality(IndexesOf("moderation", "invoke")) <= 1
    /\ Cardinality(IndexesOf("classification", "invoke")) <= 1
    /\ Cardinality(FinalCalls) <= 1
    /\ \A i \in IndexesOf("moderation", "invoke") :
          \A j \in IndexesOf("classification", "invoke") \cup FinalCalls : i < j
    /\ \A i \in IndexesOf("classification", "invoke") : \A j \in FinalCalls : i < j
    /\ (\/ pc \in {"st_get", "st_invoke", "qe_get", "qe_engine", "qe_query"}
        \/ CallsOf("small_talk") # {}
        \/ CallsOf("retrieval") # {})
       => (moderation # None /\ Val(moderation).verdict # "block")

\* a request went through all three calls: moderation model, classification
\* model, retrieval query
C14_Witness ==
    /\ pc = "done"
    /\ IndexesOf("moderation", "invoke") # {}
    /\ IndexesOf("classification", "invoke") # {}
    /\ IndexesOf("retrieval", "query") # {}

\* what the moderation model tier can yield: the parse of an output
ModelVerdicts == {parse_moderation_output(raw) : raw \in ModerationOutputs}

\* C15: run_safety_checks resolves the verdict in three ordered tiers,
\* pattern filters, moderation model, default allow/low, and stops at the
\* first with a result: the moderation model is obtained or invoked only
\* for a non-empty input no block or warn pattern matches; a result of the
\* pattern filters is the verdict, whatever the later tiers would say; with
\* the filters inconclusive the verdict is that of the model if it was
\* invoked, and the default if it was not.
C15_ModerationTiers ==
    LET user_text == Strip(question)
        filtered == run_pattern_filters(user_text)
    IN  /\ CallsOf("moderation") # {} => (user_text # <<>> /\ filtered = None)
        /\ (moderation # None /\ user_text # <<>> /\ filtered # None) =>
              moderation = filtered
        /\ (moderation # None /\ user_text # <<>> /\ filtered = None) =>
              /\ Val(moderation) \in ModelVerdicts \cup {DefaultAllowResult}
              /\ IndexesOf("moderation", "invoke") = {} =>
                    Val(moderation) = DefaultAllowResult

\* a request whose verdict, warn, came from the pattern filters was answered
\* without the moderation model
C15_Witness ==
    /\ pc = "done"
    /\ Val(moderation).verdict = "warn"
    /\ Val(moderation) = Val(run_pattern_filters(Strip(question)))
    /\ CallsOf("moderation") = {}
    /\ CallsOf("classification") # {}

\* the intents the classification model tier can yield
ModelIntents ==
    {Val(parse_classifier_output(raw).value).intent :
        raw \in {x \in ClassifierOutputs : parse_classifier_output(x).value # None}}

\* C16: classify_intent resolves the intent in three ordered tiers.  When a
\* heuristic matches, its result is the result and the classification model
\* is neither obtained nor invoked ("hello there" gives small_talk); the
\* model is used only when the heuristics are inconclusive; and when the
\* model stage is inconclusive the result is qa.
C16_IntentTiers ==
    LET user_text == Strip(question)
        h == run_heuristics(user_text)
        classified == decision # None /\ Val(moderation).verdict # "block"
    IN  /\ (IndexesOf("classification", "get") # {} \/ pc \in {"cls_get", "cls_invoke"})
              => (user_text # <<>> /\ h = None)
        /\ (classified /\ h # None) =>
              /\ Val(decision).intent = Val(h).intent
              /\ Val(decision).rationale = Val(h).rationale
        /\ (classified /\ h = None) =>
              /\ Val(decision).intent \in ModelIntents \cup {"qa"}
              /\ IndexesOf("classification", "invoke") = {} =>
                    /\ Val(decision).intent = "qa"
                    /\ Val(decision).rationale = FallbackIntentResult.rationale
        /\ (classified /\ question = <<"hello", " ", "there">>) =>
              Val(decision).intent = "small_talk"

\* "hello there" was answered as small talk with no call of the
\* classification model
C16_Witness ==
    /\ pc = "done"
    /\ question = <<"hello", " ", "there">>
    /\ Val(decision).intent = "small_talk"
    /\ IndexesOf("classification", "classify_intent") # {}
    /\ IndexesOf("classification", "get") = {}
    /\ IndexesOf("classification", "invoke") = {}

\* C17: in every decision of analyze_message, blocked or not,
\* should_escalate is true exactly when the intent is escalate, and
\* should_refuse and should_escalate are never both true; for an escalating
\* decision process_ask makes no small-talk or retrieval call and answers
\* with the escalation text.
C17_EscalateIffEscalate ==
    decision # None =>
        /\ Val(decision).should_escalate <=> Val(decision).intent = "escalate"
        /\ ~(Val(decision).should_refuse /\ Val(decision).should_escalate)
        /\ Val(decision).should_escalate =>
              /\ CallsOf("small_talk") = {}
              /\ CallsOf("retrieval") = {}
              /\ engine = None
              /\ pc \in {"dispatch", "done", "idle"}
              /\ response # None =>
                    Val(response).answer =
                        <<"This request may require a human assistant. I've forwarded the details.">>

\* a request the classification model labelled escalate has been answered
C17_Witness ==
    /\ pc = "done"
    /\ Val(decision).intent = "escalate"
    /\ Val(decision).should_escalate
    /\ response # None
    /\ IndexesOf("classification", "invoke") # {}

\* the utterance matches the memory-write heuristic and no rule above it
IsMemoryWriteUtterance(s) ==
    /\ Strip(s) # <<>>
    /\ ~MatchesBad(Strip(s))
    /\ ~MatchesSmallTalk(Strip(s))
    /\ MatchesMemoryWrite(Strip(s))

\* C18 as stated: for an utterance that matches the memory-write heuristic
\* and no higher-priority rule, what process_ask returns has intent
\* memory_write and the acknowledgment stub as answer, and no small-talk or
\* retrieval call was made.
C18_MemoryWriteAlways ==
    (IsMemoryWriteUtterance(question) /\ pc = "done") =>
        /\ response # None
        /\ Val(response).intent = "memory_write"
        /\ Val(response).answer = MemoryAcknowledgement
        /\ CallsOf("small_talk") = {}
        /\ CallsOf("retrieval") = {}

\* C18, amended: for such an utterance, once moderation has returned a
\* verdict other than block, process_ask does not fail, decides intent
\* memory_write from the heuristic without the classification model, makes
\* no small-talk or retrieval call and builds no engine, and returns the
\* acknowledgment stub with intent memory_write.
C18_MemoryWriteUnlessBlocked ==
    (/\ IsMemoryWriteUtterance(question)
     /\ moderation # None
     /\ Val(moderation).verdict # "block") =>
        /\ pc \in {"route", "dispatch", "done", "idle"}
        /\ IndexesOf("classification", "get") = {}
        /\ IndexesOf("classification", "invoke") = {}
        /\ CallsOf("small_talk") = {}
        /\ CallsOf("retrieval") = {}
        /\ engine = None
        /\ decision # None => Val(decision).intent = "memory_write"
        /\ pc \in {"done", "idle"} =>
              /\ response # None
              /\ Val(response).intent = "memory_write"
              /\ Val(response).answer = MemoryAcknowledgement

\* "remember that my favorite color is blue" was let through by the
\* moderation model and acknowledged
C18_Witness ==
    /\ pc = "done"
    /\ question = <<"remember", " ", "that", " ", "my", " ", "favorite", " ", "color",
                    " ", "is", " ", "blue">>
    /\ IndexesOf("moderation", "invoke") # {}
    /\ Val(response).intent = "memory_write"
    /\ Val(response).answer = MemoryAcknowledgement

\* rule group k of _run_heuristics, in the priority order of the claim,
\* matches the text
HeuristicGroupMatches(k, s) ==
    CASE k = 1 -> MatchesBad(s)
      [] k = 2 -> MatchesSmallTalk(s)
      [] k = 3 -> MatchesMemoryWrite(s)
      [] k = 4 -> MatchesSearch(s)
      [] k = 5 -> extract_symbol(s) # None /\ MatchesFinanceKeyword(s)
      [] k = 6 -> SplitCount(s) <= 3 /\ EndsWithQuestionMark(s)

\* the intent each rule group gives
HeuristicGroupIntent ==
    <<"bad", "small_talk", "memory_write", "search", "finance_quote", "small_talk">>

\* the rule groups that match the text
MatchingGroups(s) == {k \in 1..6 : HeuristicGroupMatches(k, s)}

\* the least element of a non-empty set of numbers
Least(S) == CHOOSE i \in S : \A j \in S : i <= j

\* C19: _run_heuristics gives, for every combination of matching rule
\* groups, the intent of the matching group of highest priority (bad, then
\* small_talk, memory_write, search, finance_quote, short question as
\* small_talk), and is inconclusive when no group matches; it calls no
\* model.  "What's AAPL stock price?" gives finance_quote.
C19_HeuristicPriority ==
    "_run_heuristics" \in returned =>
        /\ MatchingGroups(heuristic_text) = {} => heuristic_intent = None
        /\ MatchingGroups(heuristic_text) # {} =>
              /\ heuristic_intent # None
              /\ Val(heuristic_intent).intent =
                    HeuristicGroupIntent[Least(MatchingGroups(heuristic_text))]
        /\ heuristic_text = <<"What", "'", "s", " ", "AAPL", " ", "stock", " ", "price", "?">>
              => (heuristic_intent # None /\ Val(heuristic_intent).intent = "finance_quote")
        /\ calls = <<>>
        /\ cache = <<>>
        /\ llm = None

\* a text matching the small-talk, memory-write, search and finance groups,
\* the phrases in reverse order of priority, was given small_talk
C19_Witness ==
    /\ "_run_heuristics" \in returned
    /\ MatchingGroups(heuristic_text) = {2, 3, 4, 5}
    /\ heuristic_text[1] = "AAPL"
    /\ Val(heuristic_intent).intent = "small_talk"

\* the rows of _BLOCK_PATTERNS that match the text
MatchingBlocks(s) == {i \in 1..Len(BLOCK_PATTERNS) : BlockPatternMatches(i, s)}

\* the rows of _WARN_PATTERNS that match the text
MatchingWarns(s) == {i \in 1..Len(WARN_PATTERNS) : WarnPatternMatches(i, s)}

\* C20: _run_pattern_filters checks the block table before the warn table.
\* A text matching a block pattern gives block/high with the categories of
\* the first matching row, whatever warn patterns match; a text matching
\* warn patterns only gives warn/medium with the categories of the first
\* matching warn row; any other text gives no result.
C20_BlockBeforeWarn ==
    "_run_pattern_filters" \in returned =>
        LET B == MatchingBlocks(heuristic_text)
            W == MatchingWarns(heuristic_text)
        IN  /\ B # {} =>
                  /\ heuristic_match # None
                  /\ Val(heuristic_match).verdict = "block"
                  /\ Val(heuristic_match).severity = "high"
                  /\ Val(heuristic_match).categories = BLOCK_PATTERNS[Least(B)].categories
            /\ (B = {} /\ W # {}) =>
                  /\ heuristic_match # None
                  /\ Val(heuristic_match).verdict = "warn"
                  /\ Val(heuristic_match).severity = "medium"
                  /\ Val(heuristic_match).categories = WARN_PATTERNS[Least(W)].categories
            /\ (B = {} /\ W = {}) => heuristic_match = None

\* a text matching the kill and password rows and both warn rows, password
\* coming first in the text, was blocked for violence
C20_Witness ==
    /\ "_run_pattern_filters" \in returned
    /\ MatchingBlocks(heuristic_text) = {3, 5}
    /\ MatchingWarns(heuristic_text) = {1, 2}
    /\ heuristic_text[1] = "nsfw"
    /\ Val(heuristic_match).verdict = "block"
    /\ Val(heuristic_match).categories = << <<"violence">> >>

\* the current request repeats the utterance of the request before it
SameUtteranceAgain == served >= 2 /\ previous.question = question

\* C21: the heuristic stages are deterministic.  For two requests with the
\* same utterance, whatever the models and the cache did in each: when the
\* safety pattern filters match, both have the identical ModerationResult;
\* when the intent heuristics match and classify_intent ran in both, both
\* have the identical intent and rationale.  Two results differ only when
\* the corresponding heuristic stage was inconclusive.
C21_HeuristicsDeterministic ==
    LET user_text == Strip(question)
        filters_match == MatchingBlocks(user_text) \cup MatchingWarns(user_text) # {}
        heuristics_match == MatchingGroups(user_text) # {}
        both_moderated == moderation # None /\ previous.moderation # None
        both_classified ==
            /\ decision # None /\ previous.decision # None
            /\ ~is_blocked(Val(decision).moderation)
            /\ ~is_blocked(Val(previous.decision).moderation)
    IN  SameUtteranceAgain =>
            /\ (both_moderated /\ user_text # <<>> /\ filters_match)
                  => moderation = previous.moderation
            /\ (both_classified /\ user_text # <<>> /\ heuristics_match) =>
                  /\ Val(decision).intent = Val(previous.decision).intent
                  /\ Val(decision).rationale = Val(previous.decision).rationale
            /\ (both_moderated /\ moderation # previous.moderation)
                  => (user_text # <<>> /\ ~filters_match)
            /\ (both_classified /\ Val(decision).intent # Val(previous.decision).intent)
                  => (user_text # <<>> /\ ~heuristics_match)

\* "hello there" was asked twice; the moderation model gave warn the first
\* time and its construction failed the second time, and the heuristic
\* intent was small_talk both times
C21_Witness ==
    /\ SameUtteranceAgain
    /\ pc = "done"
    /\ question = <<"hello", " ", "there">>
    /\ previous.moderation # None /\ Val(previous.moderation).verdict = "warn"
    /\ Val(moderation) = DefaultAllowResult
    /\ IndexesOf("moderation", "invoke") = {}
    /\ Val(previous.decision).intent = "small_talk"
    /\ Val(decision).intent = "small_talk"

\* C22: in a run_safety_checks call that reaches the model stage the client
\* of llama-guard3 is asked for first; the client of the model named by the
\* request is asked for only after that failed, and once only; at most one
\* invocation is made, and after it, or after the fallback failed, the
\* model stage is not entered again.
C22_GuardThenFallbackOnce ==
    LET gets == IndexesOf("moderation", "get")
        invokes == IndexesOf("moderation", "invoke")
    IN  /\ Cardinality(gets) <= 2
        /\ Cardinality(invokes) <= 1
        /\ \A i \in gets : \A j \in invokes : i < j
        /\ pc = "mod_get_guard" => (gets = {} /\ invokes = {})
        /\ pc = "mod_get_fallback" =>
              (Cardinality(gets) = 1 /\ invokes = {} /\ llm = None)
        /\ pc = "mod_invoke" =>
              /\ invokes = {}
              /\ llm # None
              /\ Cardinality(gets) = 1 => Val(llm).model = GuardModel
              /\ Cardinality(gets) = 2 => Val(llm).model = model
        /\ (invokes # {} \/ Cardinality(gets) = 2) =>
              pc \notin {"moderate", "mod_get_guard", "mod_get_fallback"}
        /\ invokes # {} => pc # "mod_invoke"

\* the safety model was unavailable, the model of the request was obtained
\* and invoked once, and moderation has returned
C22_Witness ==
    /\ pc = "route"
    /\ Cardinality(IndexesOf("moderation", "get")) = 2
    /\ Cardinality(IndexesOf("moderation", "invoke")) = 1
    /\ moderation # None
    /\ GuardModel \notin {cache[i].key.model_name : i \in 1..Len(cache)}

\* what _run_llm_moderation makes of the text of a choice of fields
ModerationParseOf(parts) == parse_moderation_output(ModerationText(parts))

\* C23: when invoke succeeded _run_llm_moderation returns a
\* ModerationResult whose four fields are extracted independently: a
\* missing or unrecognized verdict becomes allow, a missing or unrecognized
\* severity low, missing categories the empty tuple and a missing rationale
\* none, and the value extracted for a field is the same in every output
\* that has the same line for that field, whatever its other lines are.
C23_FieldsIndependent ==
    ("_run_llm_moderation" \in returned /\ output_parts.kind = "moderation") =>
        /\ parsed # None
        /\ Val(parsed).verdict \in SafetyVerdict
        /\ Val(parsed).severity \in SafetySeverity
        /\ output_parts.verdict \in {None, Some(<<"maybe">>)} => Val(parsed).verdict = "allow"
        /\ output_parts.severity \in {None, Some(<<"severe">>)} => Val(parsed).severity = "low"
        /\ output_parts.categories = None => Val(parsed).categories = <<>>
        /\ output_parts.rationale = None => Val(parsed).rationale = None
        /\ \A other \in ModerationParts :
              /\ other.verdict = output_parts.verdict
                    => ModerationParseOf(other).verdict = Val(parsed).verdict
              /\ other.severity = output_parts.severity
                    => ModerationParseOf(other).severity = Val(parsed).severity
              /\ other.categories = output_parts.categories
                    => ModerationParseOf(other).categories = Val(parsed).categories
              /\ other.rationale = output_parts.rationale
                    => ModerationParseOf(other).rationale = Val(parsed).rationale

\* C24: the content-safety gate holds on the conversation path: the chat
\* engine is not invoked by process_chat unless safety moderation has been
\* run on the last user message and has returned a verdict other than
\* block.
C24_ChatSafetyGate ==
    (chat_call # None \/ IndexesOf("chat", "chat") # {}) =>
        /\ moderation # None
        /\ Val(moderation).verdict # "block"

\* the keys of the cache's entries
CachedKeys == {cache[i].key : i \in 1..Len(cache)}

\* C25: the client handles are keyed by model, temperature and context
\* length.  After any sequence of lookups and evictions every entry holds a
\* client constructed with the parameters of its key, no two entries share
\* a key or a client, and a lookup returns a client of the model and
\* temperature asked for: 0.6 for the small-talk key, 0.0 for the plain key
\* of the same model and for llama-guard3, which are three different
\* entries.
C25_KeyedByParameters ==
    /\ \A i \in 1..Len(cache) :
          /\ cache[i].handle.model = cache[i].key.model_name
          /\ cache[i].handle.num_ctx = CONTEXT_LENGTH
          /\ cache[i].key.kwds = <<>> => cache[i].handle.temperature = "0.0"
          /\ cache[i].key.kwds = << <<"temperature", "0.6">> >>
                => cache[i].handle.temperature = "0.6"
          /\ \A j \in 1..Len(cache) :
                i # j => (/\ cache[i].key # cache[j].key
                          /\ cache[i].handle.id # cache[j].handle.id)
    /\ tpc[1] \in {"hit", "missed"} =>
          /\ tres[1] # None
          /\ Val(tres[1]).model = tkey[1].model_name
          /\ \A m \in ModelIds :
                /\ tkey[1] = SmallTalkKey(m) => Val(tres[1]).temperature = "0.6"
                /\ tkey[1] = PlainKey(m) => Val(tres[1]).temperature = "0.0"
          /\ tkey[1] = PlainKey(GuardModel) =>
                (Val(tres[1]).temperature = "0.0" /\ Val(tres[1]).model = GuardModel)
    /\ \A m \in ModelIds :
          {SmallTalkKey(m), PlainKey(m), PlainKey(GuardModel)} \subseteq CachedKeys =>
              Cardinality({cache[i].handle.id : i \in
                              {j \in 1..Len(cache) :
                                  cache[j].key \in {SmallTalkKey(m), PlainKey(m),
                                                    PlainKey(GuardModel)}}}) = 3

\* after an eviction, with the plain mistral client and the llama-guard3
\* client cached, the lookup of the small-talk key of mistral was a hit and
\* returned a client of temperature 0.6
C25_Witness ==
    /\ tpc[1] = "hit"
    /\ tkey[1] = SmallTalkKey("mistral")
    /\ Val(tres[1]).temperature = "0.6"
    /\ Val(tres[1]).model = "mistral"
    /\ {PlainKey("mistral"), PlainKey(GuardModel)} \subseteq CachedKeys
    /\ Len(cache) = MAX_SIZE
    /\ next_id > MAX_SIZE + 1

\* the intent and rationale _run_llm_classifier decodes from a text, or None
\* when the text is inconclusive
DecodedIntent(raw) ==
    LET r == parse_classifier_output(raw)
    IN  IF r.raised # "" \/ r.value = None
        THEN None
        ELSE Some([intent |-> Val(r.value).intent, rationale |-> Val(r.value).rationale])

\* C26: fence stripping is transparent: a valid JSON object between one
\* pair of fences, with no tag or with the tag json, JSON or Json, is
\* decoded to the same intent and rationale as the object without fences.
C26_FenceTransparent ==
    ("_run_llm_classifier" \in returned /\ output_parts.kind = "classifier"
        /\ output_parts.fenced) =>
        /\ Val(parsed).raised = ""
        /\ DecodedIntent(output_parts.object) # None
        /\ DecodedIntent(llm_output) = DecodedIntent(output_parts.object)

\* the position of a stage of process_ask in the order of its code
StageRank ==
    [idle |-> 0, moderate |-> 1, mod_get_guard |-> 2, mod_get_fallback |-> 3,
     mod_invoke |-> 4, route |-> 5, cls_get |-> 6, cls_invoke |-> 7, dispatch |-> 8,
     st_get |-> 9, st_invoke |-> 10, qe_get |-> 9, qe_engine |-> 10, qe_query |-> 11,
     done |-> 12, failed |-> 12]

\* within a request no stage is entered a second time: every step moves to
\* a later stage
NoStageReentered ==
    [][(pc # pc' /\ pc' # "idle" /\ pc' # "moderate") => StageRank[pc'] > StageRank[pc]]_vars

\* no call of a collaborator is made twice in a request, but for the one
\* fallback of get_moderation_llm
NoCallRetried ==
    \A c \in {calls[i] : i \in 1..Len(calls)} :
        Cardinality(IndexesOf(c.stage, c.op)) <=
            (IF c = Call("moderation", "get") THEN 2 ELSE 1)

\* the request is in one of the six terminal states: its decision is made
\* and process_ask has entered the path the decision names (the refusal of
\* a blocked or a bad request, the escalation, small talk, the memory
\* acknowledgement or retrieval)
TerminalState ==
    /\ decision # None
    /\ pc \in {"st_get", "st_invoke", "qe_get", "qe_engine", "qe_query", "done", "failed"}

\* every request ends: process_ask returns or raises
EveryRequestEnds ==
    \A n \in 1..MaxRequests :
        (served = n /\ pc = "moderate") ~> (served = n /\ pc \in {"done", "failed"})

\* C27: every process_ask run terminates: provided every collaborator call
\* returns or fails, the request reaches a terminal state (Blocked, Refuse,
\* Escalate, SmallTalk, MemoryWrite or Retrieve) after finitely many steps,
\* no stage is re-entered and no collaborator call is retried.
C27_ReachesTerminalState ==
    /\ EveryRequestEnds
    /\ \A n \in 1..MaxRequests :
          (served = n /\ pc = "moderate") ~> (served = n /\ TerminalState)
    /\ NoStageReentered
    /\ []NoCallRetried

\* a step of the small-talk path: no exception leaves it, the decision stays
\* as it is, nothing of retrieval is touched, and what is returned is a
\* small_talk payload with the model's stripped text or the fixed greeting
SmallTalkStepDegrades ==
    pc \in {"st_get", "st_invoke"} =>
        /\ pc' \in {"st_invoke", "done"}
        /\ raised' = ""
        /\ decision' = decision
        /\ Val(decision).intent = "small_talk"
        /\ engine' = None
        /\ engines' = engines
        /\ \A i \in 1..Len(calls') : calls'[i].stage # "retrieval"
        /\ pc' = "done" =>
              /\ response' # None
              /\ Val(response').intent = "small_talk"
              /\ Val(response').routing_rationale = Val(decision).rationale
              /\ Val(response').answer \in
                    {SmallTalkFallback} \cup {Strip(raw) : raw \in SmallTalkOutputs}
              /\ pc = "st_get" =>
                    Val(response').answer = <<"Hi there! How can I help you today?">>

\* C28: the small-talk path does not fail.  From the moment process_ask
\* asks for the small-talk client until it returns, no exception leaves it,
\* the decision stays as it is and nothing of retrieval is touched; it
\* returns a payload with intent small_talk whose answer is the stripped
\* text of the model or, when the client could not be obtained or invoke
\* raised, "Hi there! How can I help you today?".
C28_SmallTalkFallback == [][SmallTalkStepDegrades]_vars

\* the small-talk client was obtained, its invoke failed, and process_ask
\* returned the greeting with intent small_talk and no retrieval call
C28_Witness ==
    /\ pc = "done"
    /\ IndexesOf("small_talk", "invoke") # {}
    /\ Val(response).answer = <<"Hi there! How can I help you today?">>
    /\ Val(response).intent = "small_talk"
    /\ CallsOf("retrieval") = {}
    /\ raised = ""

\* the rationales the classification model tier can yield
ModelRationales ==
    {Val(parse_classifier_output(raw).value).rationale :
        raw \in {x \in ClassifierOutputs : parse_classifier_output(x).value # None}}

\* C29: the text of a refusal tells its reason.  The answer is "I'm sorry,
\* but I can't assist with that request." exactly when the moderation
\* verdict is block, and "I'm sorry, but I can't comply with that request."
\* exactly when the request is refused with verdict allow or warn, its
\* intent being bad by classification; routing_rationale is the moderation
\* rationale in the blocked case and the rationale of the intent result
\* otherwise.
C29_RefusalTextByReason ==
    response # None =>
        LET r == Val(response)
            m == Val(moderation)
            d == Val(decision)
            h == run_heuristics(Strip(question))
        IN  /\ r.answer = <<"I'm sorry, but I can't assist with that request.">>
                  <=> m.verdict = "block"
            /\ r.answer = <<"I'm sorry, but I can't comply with that request.">>
                  <=> (d.should_refuse /\ m.verdict \in {"allow", "warn"})
            /\ r.answer = <<"I'm sorry, but I can't comply with that request.">>
                  => (r.intent = "bad" /\ CallsOf("classification") # {})
            /\ m.verdict = "block" =>
                  (r.routing_rationale = m.rationale /\ CallsOf("classification") = {})
            /\ m.verdict # "block" =>
                  /\ h # None => r.routing_rationale = Val(h).rationale
                  /\ h = None =>
                        r.routing_rationale \in
                            ModelRationales \cup {FallbackIntentResult.rationale}

\* a request the moderation model warned about and the classification model
\* labelled bad was refused with the second text
C29_Witness ==
    /\ pc = "done"
    /\ Val(moderation).verdict = "warn"
    /\ IndexesOf("classification", "invoke") # {}
    /\ Val(decision).should_refuse
    /\ Val(response).answer = <<"I'm sorry, but I can't comply with that request.">>

\* the list a request arrived with, without its last message
AllButLast(msgs) == SubSeq(msgs, 1, Len(msgs) - 1)

\* C30: what process_chat does to request.messages.  When the list is not
\* empty and its last message is not from the user, the error text is
\* returned, the chat engine is not called and the list is as it arrived.
\* When the last message is from the user, that one message and no other is
\* removed from the list, its content is the query, and the chat history is
\* the system instruction followed by the remaining messages in their
\* order.
C30_ChatFrame ==
    (received # <<>> /\ chat_pc \notin {"idle", "last"}) =>
        LET last == received[Len(received)]
        IN  /\ last.role # "user" =>
                  /\ chat_pc = "done"
                  /\ chat_result = Some(<<"Error: Last message must be from the user.">>)
                  /\ chat_call = None
                  /\ IndexesOf("chat", "chat") = {}
                  /\ messages = received
                  /\ raised = ""
            /\ last.role = "user" =>
                  /\ messages = AllButLast(received)
                  /\ Len(messages) = Len(received) - 1
                  /\ last_user_message = Some(last.content)
                  /\ chat_call # None =>
                        /\ Val(chat_call).message = last.content
                        /\ Val(chat_call).chat_history =
                              <<INSTRUCTION_MESSAGE>> \o AllButLast(received)
                        /\ Val(chat_call).chat_history[1].role = "system"
                  /\ chat_pc = "done" =>
                        (chat_call # None /\ chat_result # None
                            /\ Val(chat_result) \in QueryAnswers)

\* a list of three messages, the first and the last the same user message,
\* was answered: the last one was removed and the first one is still in the
\* history
C30_Witness ==
    /\ chat_pc = "done"
    /\ Len(received) = 3
    /\ received[3].role = "user"
    /\ received[1] = received[3]
    /\ received[2].role = "assistant"
    /\ messages = <<received[1], received[2]>>
    /\ Val(chat_call).chat_history = <<INSTRUCTION_MESSAGE, received[1], received[2]>>
    /\ Val(chat_call).message = received[3].content

====
